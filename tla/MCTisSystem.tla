---------------------------- MODULE MCTisSystem ----------------------------
(***************************************************************************)
(* The programs of the demo applications: copying (hello_ucosii.c:91,      *)
(* fpga_monitoring/main.c:14) and doubling (hello_ucosii.c:93-96).         *)
(***************************************************************************)
EXTENDS TisSystem

Memory(words) ==
    [a \in 0 .. 15 |-> IF a = 0 THEN Len(words) - 1
                       ELSE IF a \in DOMAIN words THEN words[a] ELSE 0]

MCCopy == Memory(<<55298>>)                   \* D802 MOV UP,DOWN

(* C802 MOV UP,ACC   0801 ADD ACC   D801 MOV ACC,DOWN *)
MCDouble == Memory(<<51202, 2049, 55297>>)

MCPrograms == {MCCopy, MCDouble}
MCCopyOnly == {MCCopy}
MCOutcome(program, v) == IF program = MCCopy THEN v ELSE 2 * v
=============================================================================
