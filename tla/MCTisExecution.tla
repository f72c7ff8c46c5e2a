--------------------------- MODULE MCTisExecution ---------------------------
(***************************************************************************)
(* Programs of two instructions.  Their numbers are multiples of 512, a    *)
(* set closed under 11-bit sums and differences, which keeps the           *)
(* accumulator in four values without keeping it from wrapping.            *)
(***************************************************************************)
EXTENDS TisExecution

Memory(last, words) ==
    [a \in Addresses |-> IF a = 0 THEN last
                         ELSE IF a \in DOMAIN words THEN words[a] ELSE 0]

Pairs(words) == {Memory(1, <<a, b>>) : a, b \in words}

(* In hexadecimal as tis_asm.c encodes them. *)
Arithmetic == {512, 1536, 2049, 16384, 20480, 18432}
    \* 0200 ADD 512   0600 SUB 512   0801 ADD ACC   4000 SAV   5000 SWP   4800 NEG

PortArithmetic == {2054, 3076, 2055}
    \* 0806 ADD ANY   0C04 SUB LEFT   0807 ADD LAST

Jumps == {28673, 28736, 28800, 28943, 29056}
    \* 7001 JMP 1   7040 JEZ 0   7080 JLZ 0   710F JGZ 15   7180 JNZ 0 (the hardware's)

Moves == {35328, 61441, 55298, 51202, 63493}
    \* 8A00 MOV 512,ACC   F001 MOV ACC,ANY   D802 MOV UP,DOWN
    \* C802 MOV UP,ACC    F805 MOV RIGHT,LAST

MCIsaPrograms == Pairs(Arithmetic \cup PortArithmetic \cup Jumps \cup Moves)

(* D003 MOV DOWN,UP   6000 JRO NIL   D805 MOV RIGHT,DOWN *)
MCAnyPrograms == Pairs({512, 2054, 2055, 61441, 55298, 63493, 53251, 24576, 28943})
MCValues == {512}
MCNoPatches == {}
MCPatches == {<<1, 512>>, <<2, 55298>>}
MCPorts == Ports
=============================================================================
