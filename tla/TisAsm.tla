------------------------------- MODULE TisAsm -------------------------------
(***************************************************************************)
(* tis_asm.c: from the lines of a program to the words of the execution    *)
(* node, and from the words back to text.                                  *)
(*                                                                         *)
(* A line is a record of its tokens: a label, an opcode and two operands.  *)
(* Splitting a line into them is left out, but for two things that strtok  *)
(* does to the text: it cuts the line off behind its first token, and it   *)
(* does not take a '#' at the start of a line for a comment, so that such  *)
(* a line is one with an unknown opcode.                                   *)
(***************************************************************************)
EXTENDS TisIsa, Sequences, FiniteSets

CONSTANT Names   \* what labels are called

NoName == "no name"
NoOpcode == "no opcode"

Opcodes == {"NOP", "MOV", "ADD", "SUB", "SWP", "SAV", "NEG",
            "JMP", "JEZ", "JNZ", "JGZ", "JLZ", "JRO"}

Jumps == {"JMP", "JEZ", "JNZ", "JGZ", "JLZ"}

NoOperand   == [kind |-> "none",     name |-> NoName, number |-> 0]
OfReg(r)    == [kind |-> "register", name |-> r,      number |-> 0]
OfNumber(n) == [kind |-> "number",   name |-> NoName, number |-> n]
OfName(n)   == [kind |-> "name",     name |-> n,      number |-> 0]

(* op is NoOpcode where the line ends after the label, and a label's name  *)
(* where an opcode should be but another word is; long is more than 18     *)
(* letters.                                                                *)
Line(label, op, src, dst) ==
    [label |-> label, op |-> op, src |-> src, dst |-> dst, long |-> FALSE]

(* What is left of a line when tis_assemble_program has been over it: the  *)
(* string ends where the first token did, or before the colon of a label.  *)
Chopped(line) ==
    IF line.long THEN line
    ELSE IF line.label # NoName THEN Line(NoName, line.label, NoOperand, NoOperand)
    ELSE Line(NoName, line.op, NoOperand, NoOperand)

-----------------------------------------------------------------------------
(* Encoding one line. *)

asm_operands(op) ==
    CASE op = "MOV"                            -> 2
      [] op \in {"ADD", "SUB", "JRO"} \cup Jumps -> 1
      [] OTHER                                 -> 0

asm_codes(op) ==
    CASE op = "MOV" -> 32768     \* 0x8000
      [] op = "SUB" -> 1024      \* 0x400
      [] op = "SWP" -> 20480     \* 0x5000
      [] op = "SAV" -> 16384     \* 0x4000
      [] op = "NEG" -> 18432     \* 0x4800
      [] op = "JMP" -> 28672     \* 0x7000
      [] op = "JEZ" -> 28736     \* 0x7040
      [] op = "JNZ" -> 28944     \* 0x7110
      [] op = "JGZ" -> 28928     \* 0x7100
      [] op = "JLZ" -> 28800     \* 0x7080
      [] op = "JRO" -> 24576     \* 0x6000
      [] OTHER      -> 0         \* NOP, ADD

tis_register_encode(r) == CHOOSE code \in 0 .. 7 : Register(code) = r

Magnitude(n) == IF n < -999 \/ n > 999 THEN 999 ELSE IF n < 0 THEN -n ELSE n

(* Seeded fault: the sign of the operand of SUB is not turned. *)
FaultySourceBits(line) ==
    IF line.op \in Jumps \/ asm_operands(line.op) = 0 THEN 0
    ELSE CASE line.src.kind = "register" ->
                  tis_register_encode(line.src.name)
                    + (CASE line.op = "MOV" -> 16384 [] line.op = "JRO" -> 0 [] OTHER -> 2048)
           [] line.src.kind = "number" /\ line.op # "JRO" ->
                  Magnitude(line.src.number) + (IF line.src.number < 0 THEN 1024 ELSE 0)
           [] OTHER -> 0

(* The bits <SRC> adds to the code: none for an opcode without operands,   *)
(* behind which nothing is read.  A number is put in with exclusive or,    *)
(* sign and magnitude (tis_imm11_encode); so a negative number turns the   *)
(* bit that makes SUB of ADD, and ADD of SUB.  JRO loses its number.       *)
SourceBits(line) ==
    IF line.op \in Jumps \/ asm_operands(line.op) = 0 THEN 0
    ELSE CASE line.src.kind = "register" ->
                  tis_register_encode(line.src.name)
                    + (CASE line.op = "MOV" -> 16384 [] line.op = "JRO" -> 0 [] OTHER -> 2048)
           [] line.src.kind = "number" /\ line.op # "JRO" ->
                  Magnitude(line.src.number)
                    + (IF line.src.number >= 0 THEN 0 ELSE IF line.op = "SUB" THEN -1024 ELSE 1024)
           [] OTHER -> 0

DestinationBits(line) ==
    IF line.op = "MOV" THEN 2048 * tis_register_encode(line.dst.name) ELSE 0

Encode(line) == asm_codes(line.op) + SourceBits(line) + DestinationBits(line)

-----------------------------------------------------------------------------
(* The program: addresses, labels, links. *)

TableSize == 16   \* of labels_pos, labels_ref, and of the caller's program

InstructionLines(lines) == {n \in DOMAIN lines : lines[n].op # NoOpcode}

(* pc when the nth line is looked at. *)
AddressOf(lines, n) == Cardinality({m \in InstructionLines(lines) : m < n})

(* What is at the addresses 0, 1, ... *)
Instructions(lines) ==
    [i \in 1 .. Cardinality(InstructionLines(lines)) |->
        lines[CHOOSE n \in InstructionLines(lines) : AddressOf(lines, n) = i - 1]]

Unreadable(line) ==
    \/ line.long
    \/ line.op \notin Opcodes \cup {NoOpcode}
    \/ line.op # NoOpcode /\ asm_operands(line.op) > 0 /\ line.src.kind = "none"
    \/ line.op \notin Jumps /\ line.src.kind = "name"
    \/ line.op = "MOV" /\ line.dst.kind # "register"

Labelled(lines) == {n \in DOMAIN lines : lines[n].label # NoName}

(* tis_assemble_program returns -1. *)
Rejected(lines) ==
    \/ \E n \in DOMAIN lines : Unreadable(lines[n])
    \/ \E m, n \in Labelled(lines) : m # n /\ AddressOf(lines, m) = AddressOf(lines, n)

(* The addresses a name stands for: labels_pos searched for the name.      *)
Positions(lines, name) ==
    {AddressOf(lines, n) : n \in {m \in Labelled(lines) : lines[m].label = name}}

BitwiseOr(S) ==
    LET Bit(i) == IF \E a \in S : Bits(a, i, i) = 1 THEN 2^i ELSE 0
    IN Bit(0) + Bit(1) + Bit(2) + Bit(3)

(* A name that is no label's leaves the address 0, one that several labels *)
(* have collects the bits of all.                                          *)
Linked(lines, line) ==
    Encode(line) + (IF line.op \in Jumps THEN BitwiseOr(Positions(lines, line.src.name)) ELSE 0)

(* The words written by tis_assemble_program. *)
Assembled(lines) ==
    LET ins == Instructions(lines) IN [i \in DOMAIN ins |-> Linked(lines, ins[i])]

-----------------------------------------------------------------------------
(* Back to text. *)

(* Seeded fault: source and destination in each other's place. *)
FaultyMovText(w) == Line(NoName, "MOV", OfReg(Destination(w)), OfReg(Source(w)))

MovText(w) == Line(NoName, "MOV", OfReg(Source(w)), OfReg(Destination(w)))

(* tis_dissassemble: the line it prints, with an address in place of the   *)
(* name of a label.  Words it does not know are "?", its return of -1.     *)
Disassembled(w) ==
    LET src == OfReg(Source(w))  dst == OfReg(Destination(w)) IN
    IF w = 0 THEN Line(NoName, "NOP", NoOperand, NoOperand)
    ELSE CASE Bits(w, 15, 14) = 3 -> MovText(w)
           [] Bits(w, 15, 14) = 2 -> Line(NoName, "MOV", OfNumber(Bits(w, 10, 0)), dst)
           [] Bits(w, 15, 12) = 7 ->
                  Line(NoName, CASE Bits(w, 15, 6) = 448 -> "JMP"    \* 0x7000
                                 [] Bits(w, 15, 6) = 449 -> "JEZ"    \* 0x7040
                                 [] Bits(w, 15, 6) \in {450, 452} -> "JLZ"  \* 0x7080, 0x7100
                                 [] OTHER -> "?",
                       OfNumber(Bits(w, 5, 0)), NoOperand)
           [] Bits(w, 15, 12) = 6 -> Line(NoName, "JRO", src, NoOperand)
           [] Bits(w, 15, 14) = 1 /\ Bits(w, 13, 13) = 0 ->
                  Line(NoName, CASE w = 18432 -> "NEG" [] w = 20480 -> "SWP"
                                 [] w = 16384 -> "SAV" [] OTHER -> "?", NoOperand, NoOperand)
           [] OTHER ->
                  Line(NoName, IF Bits(w, 10, 10) = 1 THEN "SUB" ELSE "ADD",
                       IF Bits(w, 11, 11) = 1 THEN src ELSE OfNumber(Bits(w, 9, 0)), NoOperand)
=============================================================================
