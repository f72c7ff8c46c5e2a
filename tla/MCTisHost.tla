----------------------------- MODULE MCTisHost ------------------------------
(***************************************************************************)
(* Texts for TisHost.  Numbers are multiples of 512, for the accumulator   *)
(* to have few values, and for the clamp 1000.                             *)
(***************************************************************************)
EXTENDS TisHost

MCNames == {"A", "B"}

Alu(op, src) == Line(NoName, op, src, NoOperand)
Bare(op) == Line(NoName, op, NoOperand, NoOperand)
At(label, line) == [line EXCEPT !.label = label]
TooLong == [Bare("NOP") EXCEPT !.long = TRUE]

Plainest ==
    {Bare(op) : op \in {"NOP", "SWP", "SAV", "NEG"}}
    \cup {Alu(op, src) : op \in {"ADD", "SUB"},
                        src \in {OfNumber(512), OfNumber(-512), OfReg("ACC"), OfReg("ANY")}}
    \cup {Alu("JRO", OfReg("ACC")), Alu("NEG", OfReg("UP"))}
    \cup {Line(NoName, "MOV", src, OfReg(dst)) :
             src \in {OfNumber(512), OfReg("UP")}, dst \in {"ACC", "DOWN"}}
    \cup {Line(NoName, "MOV", OfNumber(1000), OfReg("DOWN"))}

Jumping == {Alu(op, OfName(name)) : op \in Jumps \ {"JNZ"}, name \in MCNames}

(* In a text of three lines: what follows a jump has a label or not. *)
Texts ==
    {<<line, EmptyLine>> : line \in Plainest}
    \cup {<<Alu("ADD", OfNumber(512)), At("A", a), b, EmptyLine>> : a \in Plainest, b \in Jumping}
    \cup {<<At("B", a), At("A", Bare(NoOpcode)), b, EmptyLine>> : a \in Jumping, b \in Plainest}

(* Rejected, then typed again; names of no label and of two; full tables.  *)
Failures ==
    {<<first, bad, EmptyLine, again, EmptyLine>> :
        first \in {Bare("NOP"), At("A", Bare("NOP")), Alu("ADD", OfNumber(512)), TooLong},
        bad \in {TooLong, Bare("B"), Alu("ADD", NoOperand)},
        again \in {Bare("SAV"), Alu("ADD", OfNumber(512))}}
    \cup {<<At("A", Bare(NoOpcode)), At("A", Bare("NOP")), EmptyLine>>,
          <<At("A", Bare("NOP")), At("A", Bare("NOP")), Alu("JMP", OfName("A")), EmptyLine>>,
          <<EmptyLine>>}

Full(n) ==
    {[i \in 1 .. n + 1 |-> IF i = 1 THEN At("A", Bare("NEG"))
                          ELSE IF i = n THEN Alu("JMP", OfName("A"))
                          ELSE IF i = n + 1 THEN EmptyLine ELSE Alu("ADD", OfNumber(512))]}

By(writers, texts) == {[text |-> t, writer |-> w] : t \in texts, w \in writers}

MCTexts ==
    By({"main", "configure_node"}, Texts \cup Failures \cup Full(14)) \cup By({"main"}, Full(15))
=============================================================================
