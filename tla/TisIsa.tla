------------------------------- MODULE TisIsa -------------------------------
(***************************************************************************)
(* The 16-bit instruction words, as tis_execution_node.vhd takes them      *)
(* apart: twice, and not by the same rules.  In phase RUN the top two bits *)
(* alone say where the operand comes from; in phase FINISH longer patterns *)
(* say what is done with it.                                               *)
(***************************************************************************)
EXTENDS TisTypes

Registers == {"NIL", "ACC", "UP", "DOWN", "LEFT", "RIGHT", "ANY", "LAST"}

(* current_instruction(high downto low) *)
Bits(w, high, low) == (w \div 2^low) % 2^(high - low + 1)

Register(code) ==
    CASE code = 0 -> "NIL"
      [] code = 1 -> "ACC"
      [] code = 2 -> "UP"
      [] code = 3 -> "DOWN"
      [] code = 4 -> "LEFT"
      [] code = 5 -> "RIGHT"
      [] code = 6 -> "ANY"
      [] OTHER    -> "LAST"

Source(w) == Register(Bits(w, 2, 0))

Destination(w) == Register(Bits(w, 13, 11))

(* What phase RUN sees. *)
Group(w) ==
    CASE Bits(w, 15, 14) = 0 -> IF Bits(w, 11, 11) = 1 THEN "alu_register" ELSE "alu_immediate"
      [] Bits(w, 15, 14) = 2 -> "mov_immediate"
      [] Bits(w, 15, 14) = 3 -> "mov_register"
      [] OTHER               -> "no_operand"

(* to_integer(unsigned(9 downto 0)) and to_integer(signed(10 downto 0)). *)
AluImmediate(w) == Bits(w, 9, 0)

MovImmediate(w) == Wrap11(Bits(w, 10, 0))

(* What phase FINISH sees. *)
Operation(w) ==
    CASE Bits(w, 15, 3) = 3072 -> "JRO"
      [] Bits(w, 15, 9) = 56   -> "JMP"
      [] Bits(w, 15, 12) = 0   -> IF Bits(w, 10, 10) = 1 THEN "SUB" ELSE "ADD"
      [] w = 18432             -> "NEG"     \* x"4800"
      [] w = 16384             -> "SAV"     \* x"4000"
      [] w = 20480             -> "SWP"     \* x"5000"
      [] OTHER                 -> "other"

(* Of the jumps: the condition, and the address jumped to. *)
Condition(w) ==
    CASE Bits(w, 8, 6) = 0 -> "JMP"
      [] Bits(w, 8, 6) = 1 -> "JEZ"
      [] Bits(w, 8, 6) = 2 -> "JLZ"
      [] Bits(w, 8, 6) = 4 -> "JGZ"
      [] Bits(w, 8, 6) = 6 -> "JNZ"
      [] OTHER             -> "none"

Target(w) == Bits(w, 3, 0)

Holds(condition, acc) ==
    \/ condition = "JMP"
    \/ condition = "JEZ" /\ acc = 0
    \/ condition = "JLZ" /\ acc < 0
    \/ condition = "JGZ" /\ acc > 0
    \/ condition = "JNZ" /\ acc # 0
=============================================================================
