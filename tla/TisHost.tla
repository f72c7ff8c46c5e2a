------------------------------- MODULE TisHost ------------------------------
(***************************************************************************)
(* main() of hello_ucosii.c up to OSStart: it reads lines, assembles them  *)
(* at an empty one and writes the words into the execution node, which may *)
(* be running all the while.  tis_node.c holds a second way to write them. *)
(*                                                                         *)
(* The buffer is a sequence of lines; ASM_SIZE counts lines.  The node's   *)
(* clock edges with tis_active raised fall anywhere between the stores;    *)
(* its neighbours are silent.                                              *)
(* The buffer takes less than sixteen lines here and 512 characters there: *)
(* the tables of the assembler have sixteen entries that nothing guards,   *)
(* and a sixteenth word would fall behind the node's addresses.            *)
(***************************************************************************)
EXTENDS TisAsm, TisExecutionNode

CONSTANTS ASM_SIZE,   \* how many lines the buffer holds
          Scripts     \* what may be typed, and who will write the words:
                      \* [text |-> a sequence of lines, writer |-> "main" or "configure_node"]

(* What a line can consist of. *)
Operands ==
    {NoOperand} \cup {OfReg(r) : r \in Registers} \cup {OfName(n) : n \in Names}
    \cup [kind : {"number"}, name : {NoName}, number : Int]

TextLines == [label : Names \cup {NoName}, op : Opcodes \cup Names \cup {NoOpcode},
              src : Operands, dst : Operands, long : BOOLEAN]

ASSUME HostAssumption ==
    /\ ASM_SIZE \in 1 .. TableSize
    /\ Scripts \subseteq [text : Seq(TextLines), writer : {"main", "configure_node"}]

EmptyLine == Line(NoName, NoOpcode, NoOperand, NoOperand)

VARIABLES
    script,    \* what is still to be typed
    writer,
    buffer,
    lines,     \* the text the words were made from
    program,   \* the words, instruction_cnt of them
    phase,     \* of main: where it is
    written,   \* how many words are in the node
    fetched    \* history: the word phase RUN of the node saw

textVars == <<script, writer, buffer, lines, program>>
hostVars == <<textVars, phase, written>>
vars == <<hostVars, fetched, execVars>>

Init ==
    /\ \E s \in Scripts : script = s.text /\ writer = s.writer
    /\ buffer = <<>> /\ lines = <<>> /\ program = <<>>
    /\ phase = "reading" /\ written = 0
    /\ ExecInit([a \in Addresses |-> 0])
    /\ fetched = 0

-----------------------------------------------------------------------------
(* Reading. *)

AddLine(line) ==
    /\ phase = "reading"
    /\ IF Len(buffer) + 1 >= ASM_SIZE
         THEN buffer' = <<>>                     \* "Buffer overflow, try again"
         ELSE buffer' = Append(buffer, line)
    /\ UNCHANGED <<lines, program, phase, written>>

(* An empty line.  When the assembler fails, what it has left of the text  *)
(* stays in the buffer.                                                    *)
Assemble ==
    /\ phase = "reading"
    /\ IF Rejected(buffer)
         THEN /\ buffer' = <<Chopped(Head(buffer))>>
              /\ UNCHANGED <<lines, program, phase>>
         ELSE /\ lines' = buffer
              /\ program' = Assembled(buffer)
              /\ phase' = "assembled"
              /\ UNCHANGED buffer
    /\ UNCHANGED written

Read ==
    /\ script # <<>>
    /\ script' = Tail(script)
    /\ IF Head(script) = EmptyLine THEN Assemble ELSE AddLine(Head(script))
    /\ UNCHANGED <<writer, fetched, execVars>>

(* fgets returns NULL: nothing more is read and nothing is written, and    *)
(* the tasks start over a node without a program.                          *)
EndOfInput ==
    /\ phase = "reading"
    /\ phase' = "no_program"
    /\ UNCHANGED <<textVars, written, fetched, execVars>>

-----------------------------------------------------------------------------
(* Writing: the length, then the words, one store each. *)

(* Seeded fault: the length as it is. *)
FaultyLength == IF writer = "main" THEN Len(program) ELSE Len(program) % 16

(* Seeded fault: no narrowing to a halfword. *)
FaultyWideLength == IF writer = "main" THEN Len(program) - 1 ELSE Len(program) % 16

(* The node wants the address of the last instruction.  configure_node     *)
(* stores the number of instructions.                                      *)
Length == IF writer = "main" THEN Halfword(Len(program) - 1) ELSE Len(program) % 16

Configure ==
    /\ phase = "assembled"
    /\ MemoryWrite(0, Length)
    /\ phase' = IF writer = "configure_node" /\ Len(program) > 15 THEN "refused" ELSE "writing"
    /\ UNCHANGED <<textVars, written, fetched, node_state, cpuVars, ioVars, o_active>>

WriteWord ==
    /\ phase = "writing" /\ written < Len(program)
    /\ MemoryWrite(written + 1, program[written + 1])
    /\ written' = written + 1
    /\ UNCHANGED <<textVars, phase, fetched, node_state, cpuVars, ioVars, o_active>>

(* OSStart: the tasks input and output take over. *)
Start ==
    /\ phase = "writing" /\ written = Len(program)
    /\ phase' = "started"
    /\ UNCHANGED <<textVars, written, fetched, execVars>>

NodeEdge ==
    /\ ExecEdge(TRUE, Quiet, [p \in Ports |-> 0])
    /\ fetched' = IF node_state = "RUN" THEN current_instruction ELSE fetched
    /\ UNCHANGED <<hostVars, memory>>

Next == Read \/ EndOfInput \/ Configure \/ WriteWord \/ Start \/ NodeEdge

Spec == Init /\ [][Next]_vars

-----------------------------------------------------------------------------
(* What a line means, and what the node takes a word for, in one vocabulary.*)

Clamp(n) == IF n > 999 THEN 999 ELSE IF n < -999 THEN -999 ELSE n

Meaning(line) ==
    LET src == line.src IN
    CASE line.op = "NOP" -> [do |-> "ADD", with |-> OfNumber(0), to |-> NoName]
      [] line.op \in {"SWP", "SAV", "NEG"} ->
             [do |-> line.op, with |-> NoOperand, to |-> NoName]
      [] line.op \in {"ADD", "SUB"} /\ src.kind = "number" ->
             [do |-> "ADD", to |-> NoName,
              with |-> OfNumber(Clamp(IF line.op = "ADD" THEN src.number ELSE -src.number))]
      [] line.op = "MOV" -> [do |-> "MOV", to |-> line.dst.name,
                             with |-> IF src.kind = "number" THEN OfNumber(Clamp(src.number)) ELSE src]
      [] line.op \in Jumps ->
             [do |-> line.op, to |-> NoName,
              with |-> OfNumber(CHOOSE a \in Positions(lines, src.name) : TRUE)]
      [] OTHER -> [do |-> line.op, with |-> src, to |-> NoName]

(* The instructions that are carried out with the operand they name.  JRO  *)
(* loads none and takes what an earlier instruction left; a MOV to a port  *)
(* loses what comes over DOWN, as from ANY or LAST it may.                 *)
KeepsOperand(op, src, dst) ==
    /\ op # "JRO"
    /\ op = "MOV" /\ src \in {"DOWN", "ANY", "LAST"} => dst \in {"ACC", "NIL"}

Effect(w) ==
    CASE Group(w) = "mov_register" ->
             [do |-> "MOV", to |-> Destination(w),
              with |-> IF KeepsOperand("MOV", Source(w), Destination(w)) THEN OfReg(Source(w))
                                                                         ELSE NoOperand]
      [] Group(w) = "mov_immediate" ->
             [do |-> "MOV", with |-> OfNumber(MovImmediate(w)), to |-> Destination(w)]
      [] Group(w) = "alu_register" ->
             [do |-> Operation(w), with |-> OfReg(Source(w)), to |-> NoName]
      [] Group(w) = "alu_immediate" ->
             [do |-> "ADD", to |-> NoName,
              with |-> OfNumber(IF Operation(w) = "SUB" THEN -AluImmediate(w) ELSE AluImmediate(w))]
      [] Operation(w) = "JMP" ->
             [do |-> Condition(w), with |-> OfNumber(Target(w)), to |-> NoName]
      [] OTHER -> [do |-> Operation(w), with |-> NoOperand, to |-> NoName]

(* The lines that are assembled as they are meant: JNZ, a negative MOV,    *)
(* JRO with a number and a name that not exactly one label has are not.    *)
Plain(line) ==
    /\ line.op # "JNZ"
    /\ ~(line.op = "MOV" /\ line.src.number < 0)
    /\ ~(line.op = "JRO" /\ line.src.kind = "number")
    /\ line.op \in Jumps => Cardinality(Positions(lines, line.src.name)) = 1

Uploaded(i) == phase = "started" /\ i <= Len(program)

(* What node_info lists: as many words as the length says, and nothing     *)
(* ("Node unconfigured") if it is 0.                                       *)
NodeInfo == [i \in 1 .. memory[0] % 16 |-> Disassembled(memory[i])]

-----------------------------------------------------------------------------
TypeOK ==
    /\ phase \in {"reading", "no_program", "assembled", "writing", "refused", "started"}
    /\ Len(buffer) < ASM_SIZE
    /\ program \in Seq(Word16) /\ Len(program) <= TableSize
    /\ written \in 0 .. Len(program)
    /\ memory \in [Addresses -> Word16]
    /\ fetched \in Word16
    /\ node_pc \in Addresses /\ node_acc \in Word11 /\ node_bak \in Word11

(* Assembler and node agree on the instruction set: when the tasks start,  *)
(* each word in the node does there what the line it was made from says,   *)
(* whatever the node did while the words came in.  Left out are the lines  *)
(* that are assembled into something else (Plain), and those the node does *)
(* not carry out with their operand (KeepsOperand): every JRO, and MOV of  *)
(* DOWN, ANY or LAST to a port.                                            *)
TextBecomesProgram ==
    \A i \in 1 .. 15 : Uploaded(i) =>
        LET line == Instructions(lines)[i] IN
        Plain(line) /\ KeepsOperand(line.op, line.src.name, line.dst.name) =>
            Effect(memory[i]) = Meaning(line)

(* What node_info lists, once the tasks run, says what the text said: for  *)
(* a jump the address in place of the name.  It has no name for JGZ.  Of a *)
(* program of configure_node every instruction is listed; of one of main    *)
(* the last is missing, because main stores one less.                      *)
ListingReadsBack ==
    /\ \A i \in 1 .. 15 : Uploaded(i) /\ i <= Len(NodeInfo) =>
           LET line == Instructions(lines)[i]
               back == NodeInfo[i]
           IN Plain(line) /\ line.op # "JGZ" =>
                  IF line.op \in Jumps
                    THEN back.op = line.op /\ back.src.number \in Positions(lines, line.src.name)
                    ELSE Meaning(back) = Meaning(line)
    /\ phase = "started" /\ writer = "configure_node" => Len(NodeInfo) = Len(program)

(* The length is stored before the words, while the node may be running:   *)
(* it still carries out nothing but words of the program and zeros not yet *)
(* replaced, and never the length itself, which lies behind the last word. *)
(* configure_node stores the number of instructions where the node wants   *)
(* one less, so this fails for it when there are fifteen.                  *)
RunsTheProgramOnly ==
    ~(writer = "configure_node" /\ Len(program) = 15) /\ program # <<>> =>
        /\ node_pc < 15
        /\ node_state = "FINISH" =>
               current_instruction \in {0} \cup {program[i] : i \in 1 .. written}
        /\ phase = "started" /\ writer = "main" => node_pc < Len(program)

(* A word may be replaced between the phase that fetches its operand and   *)
(* the one that carries it out.  Then it is carried out with the operand   *)
(* of the word before, and no number is changed by that, because nothing   *)
(* but zeros is replaced.                                                  *)
TornIsHarmless ==
    [][ (/\ node_state = "FINISH" /\ node_state' = "RUN"
         /\ current_instruction # fetched
         /\ Operation(current_instruction) \in {"ADD", "SUB", "other"})
            => UNCHANGED <<node_acc, node_bak>> ]_vars
=============================================================================
