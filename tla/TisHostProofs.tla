--------------------------- MODULE TisHostProofs ----------------------------
(***************************************************************************)
(* Theorems about TisHost, for any texts and any size of the buffer.       *)
(***************************************************************************)
EXTENDS TisHost, SequenceTheorems, FiniteSetTheorems, TLAPS

-----------------------------------------------------------------------------
(* The invariant. *)

NotAssembled == phase \in {"reading", "no_program"}

NotWritten == NotAssembled \/ phase = "assembled"

(* main: what is read, and what it is made into. *)
TextInv ==
    /\ script \in Seq(TextLines) /\ writer \in {"main", "configure_node"}
    /\ buffer \in Seq(TextLines) /\ Len(buffer) < ASM_SIZE
    /\ phase \in {"reading", "no_program", "assembled", "writing", "refused", "started"}
    /\ NotAssembled => lines = <<>> /\ program = <<>>
    /\ ~NotAssembled =>
           lines = buffer /\ ~Rejected(lines) /\ program = Assembled(lines)

(* What the host has stored, and that it has stored over zeros. *)
Stored(a) ==
    IF a = 0 THEN IF NotWritten THEN 0 ELSE Length
    ELSE IF a <= written THEN program[a] ELSE 0

MemoryInv ==
    /\ written \in 0 .. Len(program)
    /\ NotWritten => written = 0
    /\ phase = "started" => written = Len(program)
    /\ memory = [a \in Addresses |-> Stored(a)]

(* The registers of the node, which no neighbour has ever answered. *)
RegisterInv ==
    /\ node_state \in Phases
    /\ node_acc \in Word11 /\ node_bak \in Word11 /\ node_io_value \in Word11
    /\ node_io_read \in BOOLEAN /\ node_io_write \in BOOLEAN
    /\ node_src_reg \in Registers /\ node_dst_reg \in Registers
    /\ node_last = "NIL"
    /\ fetched \in Word16

(* The counter stays in the program, whose length is raised only once.     *)
CounterInv == node_pc \in 0 .. last_instruction_address

(* What is under way belongs to a word; and if what phase RUN saw has been *)
(* replaced, it was a zero, which leaves a zero for an operand.            *)
LapInv ==
    /\ node_io_read \/ node_io_write => current_instruction # 0
    /\ node_state # "RUN" =>
           /\ fetched \in {0, current_instruction}
           /\ fetched = 0 => ~node_io_read /\ ~node_io_write /\ node_io_value = 0

HostInv == TextInv /\ MemoryInv /\ RegisterInv /\ CounterInv /\ LapInv

-----------------------------------------------------------------------------
(* Registers and addresses. *)

LEMMA RegisterCoded ==
    ASSUME NEW r \in Registers
    PROVE  /\ tis_register_encode(r) \in 0 .. 7
           /\ Register(tis_register_encode(r)) = r
<1>1. \E code \in 0 .. 7 : Register(code) = r
  <2>1. /\ Register(0) = "NIL" /\ Register(1) = "ACC" /\ Register(2) = "UP"
        /\ Register(3) = "DOWN" /\ Register(4) = "LEFT" /\ Register(5) = "RIGHT"
        /\ Register(6) = "ANY" /\ Register(7) = "LAST"
    BY DEF Register
  <2>2. r \in {"NIL", "ACC", "UP", "DOWN", "LEFT", "RIGHT", "ANY", "LAST"}
    BY DEF Registers
  <2>3. {0, 1, 2, 3, 4, 5, 6, 7} \subseteq 0 .. 7
    OBVIOUS
  <2> QED BY <2>1, <2>2, <2>3
<1> QED BY <1>1 DEF tis_register_encode

LEMMA RegisterNamed == \A code \in Nat : Register(code) \in Registers
BY DEF Register, Registers

LEMMA LeastMember ==
    ASSUME NEW S \in SUBSET Nat, S # {}
    PROVE  \E n \in S : \A m \in S : n <= m
<1> DEFINE R == {ss \in Nat \X Nat : ss[1] < ss[2]}
<1>1. IsWellFoundedOn(R, Nat)
    BY NatLessThanWellFounded DEF OpToRel
<1>2. \E n \in S : \A m \in S : ~(<<m, n>> \in R)
    <2> HIDE DEF R
    <2> QED BY <1>1, WFMin
<1>3. PICK n \in S : \A m \in S : ~(<<m, n>> \in R)
    BY <1>2
<1>4. ASSUME NEW m \in S
      PROVE  n <= m
    <2>1. n \in Nat /\ m \in Nat /\ <<m, n>> \in Nat \X Nat
        OBVIOUS
    <2>2. m < n => <<m, n>> \in R
        BY <2>1
    <2> QED BY <1>3, <2>1, <2>2
<1> QED BY <1>4

LEMMA LinesFinite ==
    ASSUME NEW text \in Seq(TextLines)
    PROVE  /\ InstructionLines(text) \subseteq 1 .. Len(text)
           /\ IsFiniteSet(InstructionLines(text))
           /\ Cardinality(InstructionLines(text)) \in 0 .. Len(text)
<1>1. Len(text) \in Nat /\ DOMAIN text = 1 .. Len(text)
    OBVIOUS
<1>2. InstructionLines(text) \subseteq 1 .. Len(text)
    BY <1>1 DEF InstructionLines
<1>3. IsFiniteSet(1 .. Len(text)) /\ Cardinality(1 .. Len(text)) = Len(text)
    BY <1>1, FS_Interval
<1>4. /\ IsFiniteSet(InstructionLines(text))
      /\ Cardinality(InstructionLines(text)) <= Cardinality(1 .. Len(text))
    BY <1>2, <1>3, FS_Subset
<1>5. Cardinality(InstructionLines(text)) \in Nat
    BY <1>4, FS_CardinalityType
<1> QED BY <1>1, <1>2, <1>3, <1>4, <1>5

(* Addresses count the instructions passed. *)
LEMMA AddressStep ==
    ASSUME NEW text \in Seq(TextLines), NEW n \in 1 .. Len(text)
    PROVE  /\ AddressOf(text, n) \in 0 .. Cardinality(InstructionLines(text))
           /\ AddressOf(text, n) \in 0 .. n - 1
           /\ AddressOf(text, n + 1) =
                  IF n \in InstructionLines(text) THEN AddressOf(text, n) + 1
                                                  ELSE AddressOf(text, n)
<1> DEFINE I == InstructionLines(text)
           Before(k) == {m \in I : m < k}
<1>1. /\ I \subseteq 1 .. Len(text) /\ IsFiniteSet(I) /\ Cardinality(I) \in Nat
      /\ Len(text) \in Nat
    BY LinesFinite
<1>2. IsFiniteSet(Before(n)) /\ Cardinality(Before(n)) <= Cardinality(I)
    BY <1>1, FS_Subset
<1>3. Cardinality(Before(n)) \in Nat
    BY <1>2, FS_CardinalityType
<1>4. AddressOf(text, n) = Cardinality(Before(n)) /\ AddressOf(text, n + 1) = Cardinality(Before(n + 1))
    BY DEF AddressOf
<1>5. AddressOf(text, n + 1) =
          IF n \in InstructionLines(text) THEN AddressOf(text, n) + 1 ELSE AddressOf(text, n)
  <2>1. CASE n \in I
    <3>1. Before(n + 1) = Before(n) \cup {n} /\ n \notin Before(n)
        BY <1>1, <2>1
    <3>2. Cardinality(Before(n) \cup {n}) = Cardinality(Before(n)) + 1
        BY <1>2, <3>1, FS_AddElement
    <3> HIDE DEF Before
    <3> QED BY <1>4, <2>1, <3>1, <3>2
  <2>2. CASE n \notin I
    <3>1. Before(n + 1) = Before(n)
        BY <1>1, <2>2
    <3> HIDE DEF Before
    <3> QED BY <1>4, <2>2, <3>1
  <2> QED BY <2>1, <2>2
<1>6. Cardinality(Before(n)) <= n - 1
  <2>1. Before(n) \subseteq 1 .. n - 1
    BY <1>1
  <2>2. IsFiniteSet(1 .. n - 1) /\ Cardinality(1 .. n - 1) = n - 1
    <3>1. n - 1 \in Nat
        BY <1>1
    <3> QED BY <3>1, FS_Interval
  <2>3. Cardinality(Before(n)) <= Cardinality(1 .. n - 1)
    BY <2>1, <2>2, FS_Subset
  <2> QED BY <2>2, <2>3
<1> HIDE DEF Before
<1> QED BY <1>1, <1>2, <1>3, <1>4, <1>5, <1>6

(* At every address there is the instruction of one of the lines. *)
LEMMA AddressTaken ==
    ASSUME NEW text \in Seq(TextLines),
           NEW i \in 1 .. Cardinality(InstructionLines(text))
    PROVE  \E n \in InstructionLines(text) : AddressOf(text, n) = i - 1
<1> DEFINE L == Len(text)
           C == Cardinality(InstructionLines(text))
           Far == {n \in 1 .. L : AddressOf(text, n + 1) >= i}
<1>1. /\ L \in Nat /\ C \in 0 .. L /\ i \in Nat
      /\ InstructionLines(text) \subseteq 1 .. L
    BY LinesFinite
<1>2. L \in Far
  <2>1. {m \in InstructionLines(text) : m < L + 1} = InstructionLines(text)
    BY <1>1
  <2>2. AddressOf(text, L + 1) = C
    BY <2>1 DEF AddressOf
  <2> QED BY <1>1, <2>2
<1>3. \E n \in Far : \A m \in Far : n <= m
  <2>1. Far \in SUBSET Nat /\ Far # {}
    BY <1>1, <1>2
  <2> HIDE DEF Far
  <2> QED BY <2>1, LeastMember
<1>6. PICK n \in 1 .. L : /\ AddressOf(text, n + 1) >= i
                          /\ \A m \in 1 .. L : AddressOf(text, m + 1) >= i => n <= m
    BY <1>3
<1>4. AddressOf(text, n) < i
  <2>1. CASE n = 1
    <3>1. {m \in InstructionLines(text) : m < 1} = {}
        BY <1>1
    <3>2. AddressOf(text, 1) = 0
        BY <3>1, FS_EmptySet DEF AddressOf
    <3> QED BY <2>1, <3>2, <1>1
  <2>2. CASE n # 1
    <3>1. /\ n - 1 \in 1 .. L
          /\ (n - 1) + 1 = n
          /\ ~(n <= n - 1)
        BY <1>1, <2>2
    <3>2. ~(AddressOf(text, (n - 1) + 1) >= i)
        BY <3>1, <1>6
    <3>3. ~(AddressOf(text, n) >= i)
        BY <3>1, <3>2
    <3>4. AddressOf(text, n) \in 0 .. C
        BY AddressStep
    <3> HIDE DEF L, C
    <3> QED BY <3>3, <3>4, <1>1
  <2> QED BY <2>1, <2>2
<1>5. /\ AddressOf(text, n) \in Nat
      /\ AddressOf(text, n + 1) >= i
      /\ AddressOf(text, n + 1) = IF n \in InstructionLines(text) THEN AddressOf(text, n) + 1
                                                                 ELSE AddressOf(text, n)
    BY <1>1, <1>6, AddressStep
<1> HIDE DEF Far, L, C
<1> QED BY <1>1, <1>4, <1>5

LEMMA InstructionIsALine ==
    ASSUME NEW text \in Seq(TextLines), NEW i \in DOMAIN Instructions(text)
    PROVE  \E n \in DOMAIN text : text[n].op # NoOpcode /\ Instructions(text)[i] = text[n]
<1> DEFINE n == CHOOSE n \in InstructionLines(text) : AddressOf(text, n) = i - 1
<1>1. i \in 1 .. Cardinality(InstructionLines(text))
    BY DEF Instructions
<1>2. n \in InstructionLines(text)
    BY <1>1, AddressTaken
<1>3. Instructions(text)[i] = text[n]
    BY <1>1 DEF Instructions
<1> HIDE DEF n
<1> QED BY <1>2, <1>3 DEF InstructionLines

-----------------------------------------------------------------------------
(* Words: the fields of what the assembler puts together. *)

(* 65536 stays folded: the solver is slow with literals of that size.      *)
LEMMA WordRange == \A w : w \in Word16 <=> w \in Int /\ 0 <= w /\ w < 65536
<1>1. Halfwords \in Int /\ Halfwords <= 65536 /\ Halfwords >= 65536
    BY DEF Halfwords
<1> QED BY <1>1 DEF Word16

LEMMA Fields ==
    ASSUME NEW w \in Word16
    PROVE  /\ Bits(w, 15, 14) = (w \div 16384) % 4
           /\ Bits(w, 15, 12) = (w \div 4096) % 16
           /\ Bits(w, 15, 9) = (w \div 512) % 128
           /\ Bits(w, 15, 6) = (w \div 64) % 1024
           /\ Bits(w, 15, 3) = (w \div 8) % 8192
           /\ Bits(w, 13, 13) = (w \div 8192) % 2
           /\ Bits(w, 13, 11) = (w \div 2048) % 8
           /\ Bits(w, 11, 11) = (w \div 2048) % 2
           /\ Bits(w, 10, 10) = (w \div 1024) % 2
           /\ Bits(w, 10, 0) = w % 2048
           /\ Bits(w, 9, 0) = w % 1024
           /\ Bits(w, 8, 6) = (w \div 64) % 8
           /\ Bits(w, 5, 0) = w % 64
           /\ Bits(w, 3, 0) = w % 16
           /\ Bits(w, 2, 0) = w % 8
BY WordRange DEF Bits

(* Operands and opcodes put together; s is the bit of SUB, k a condition. *)
MovRegister(c, d) == 32768 + (c + 16384) + 2048 * d
MovNumber(v, d)   == 32768 + v + 2048 * d
AluRegister(c, s) == 1024 * s + (c + 2048)
AluNumber(v, s)   == 1024 * s + v
Jump(a, k)        == 28672 + 64 * k + a
Jro(c)            == 24576 + c

LEMMA MovRegisterWord ==
    ASSUME NEW c \in 0 .. 7, NEW d \in 0 .. 7, NEW w, w = MovRegister(c, d)
    PROVE  /\ w \in Word16 /\ w # 0
           /\ Bits(w, 15, 14) = 3
           /\ Bits(w, 15, 12) \notin {0, 6, 7}
           /\ Bits(w, 15, 3) # 3072
           /\ Bits(w, 15, 9) # 56
           /\ Bits(w, 2, 0) = c
           /\ Bits(w, 13, 11) = d
           /\ w \notin {16384, 18432, 20480}
<1>0. w = 32768 + (c + 16384) + 2048 * d
    BY DEF MovRegister
<1>1. w \in Word16 /\ w # 0
    BY <1>0, WordRange
<1>2. (w \div 16384) % 4 = 3
    BY <1>0
<1>3. (w \div 4096) % 16 \notin {0, 6, 7}
    BY <1>0
<1>4. (w \div 8) % 8192 # 3072
    BY <1>0
<1>5. (w \div 512) % 128 # 56
    BY <1>0
<1>6. w % 8 = c
    BY <1>0
<1>7. (w \div 2048) % 8 = d
  <2>1. w \div 2048 = 24 + d
    BY <1>0
  <2>2. (24 + d) % 8 = d
    OBVIOUS
  <2> QED BY <2>1, <2>2
<1>8. w \notin {16384, 18432, 20480}
    BY <1>0
<1> QED BY <1>1, <1>2, <1>3, <1>4, <1>5, <1>6, <1>7, <1>8, Fields

LEMMA MovImmediateWord ==
    ASSUME NEW v \in Nat, v <= 999, NEW d \in 0 .. 7, NEW w, w = MovNumber(v, d)
    PROVE  /\ w \in Word16 /\ w # 0
           /\ Bits(w, 15, 14) = 2
           /\ Bits(w, 15, 12) \notin {0, 6, 7}
           /\ Bits(w, 15, 3) # 3072
           /\ Bits(w, 15, 9) # 56
           /\ Bits(w, 10, 0) = v
           /\ Bits(w, 13, 11) = d
           /\ w \notin {16384, 18432, 20480}
<1>0. w = 32768 + v + 2048 * d
    BY DEF MovNumber
<1>1. w \in Word16 /\ w # 0
    BY <1>0, WordRange
<1>2. (w \div 16384) % 4 = 2
    BY <1>0
<1>3. (w \div 4096) % 16 \notin {0, 6, 7}
    BY <1>0
<1>4. (w \div 8) % 8192 # 3072
    BY <1>0
<1>5. (w \div 512) % 128 # 56
    BY <1>0
<1>6. w % 2048 = v
    BY <1>0
<1>7. (w \div 2048) % 8 = d
  <2>1. w \div 2048 = 16 + d
    BY <1>0
  <2>2. (16 + d) % 8 = d
    OBVIOUS
  <2> QED BY <2>1, <2>2
<1>8. w \notin {16384, 18432, 20480}
    BY <1>0
<1> QED BY <1>1, <1>2, <1>3, <1>4, <1>5, <1>6, <1>7, <1>8, Fields

LEMMA AluRegisterWord ==
    ASSUME NEW c \in 0 .. 7, NEW s \in 0 .. 1, NEW w, w = AluRegister(c, s)
    PROVE  /\ w \in Word16 /\ w # 0
           /\ Bits(w, 15, 14) = 0
           /\ Bits(w, 15, 12) = 0
           /\ Bits(w, 15, 3) # 3072
           /\ Bits(w, 15, 9) # 56
           /\ Bits(w, 13, 13) = 0
           /\ Bits(w, 11, 11) = 1
           /\ Bits(w, 10, 10) = s
           /\ Bits(w, 2, 0) = c
           /\ w \notin {16384, 18432, 20480}
<1>0. w = 1024 * s + (c + 2048)
    BY DEF AluRegister
<1>1. w \in Word16 /\ w # 0
    BY <1>0, WordRange
<1>2. (w \div 16384) % 4 = 0
    BY <1>0
<1>3. (w \div 4096) % 16 = 0
    BY <1>0
<1>4. (w \div 8) % 8192 # 3072
    BY <1>0
<1>5. (w \div 512) % 128 # 56
    BY <1>0
<1>6. (w \div 8192) % 2 = 0
    BY <1>0
<1>7. (w \div 2048) % 2 = 1
    BY <1>0
<1>8. (w \div 1024) % 2 = s
  <2>1. w \div 1024 = 2 + s
    BY <1>0
  <2>2. (2 + s) % 2 = s
    OBVIOUS
  <2> QED BY <2>1, <2>2
<1>9. w % 8 = c
    BY <1>0
<1>10. w \notin {16384, 18432, 20480}
    BY <1>0
<1> QED BY <1>1, <1>2, <1>3, <1>4, <1>5, <1>6, <1>7, <1>8, <1>9, <1>10, Fields

LEMMA AluImmediateWord ==
    ASSUME NEW v \in Nat, v <= 999, NEW s \in 0 .. 1, NEW w, w = AluNumber(v, s)
    PROVE  /\ w \in Word16
           /\ Bits(w, 15, 14) = 0
           /\ Bits(w, 15, 12) = 0
           /\ Bits(w, 15, 3) # 3072
           /\ Bits(w, 15, 9) # 56
           /\ Bits(w, 13, 13) = 0
           /\ Bits(w, 11, 11) = 0
           /\ Bits(w, 10, 10) = s
           /\ Bits(w, 9, 0) = v
           /\ w \notin {16384, 18432, 20480}
<1>0. w = 1024 * s + v
    BY DEF AluNumber
<1>1. w \in Word16
    BY <1>0, WordRange
<1>2. (w \div 16384) % 4 = 0
    BY <1>0
<1>3. (w \div 4096) % 16 = 0
    BY <1>0
<1>4. (w \div 8) % 8192 # 3072
    BY <1>0
<1>5. (w \div 512) % 128 # 56
    BY <1>0
<1>6. (w \div 8192) % 2 = 0
    BY <1>0
<1>7. (w \div 2048) % 2 = 0
    BY <1>0
<1>8. (w \div 1024) % 2 = s
  <2>1. w \div 1024 = s
    BY <1>0
  <2>2. (s) % 2 = s
    OBVIOUS
  <2> QED BY <2>1, <2>2
<1>9. w % 1024 = v
    BY <1>0
<1>10. w \notin {16384, 18432, 20480}
    BY <1>0
<1> QED BY <1>1, <1>2, <1>3, <1>4, <1>5, <1>6, <1>7, <1>8, <1>9, <1>10, Fields

LEMMA JumpWord ==
    ASSUME NEW a \in 0 .. 15, NEW k \in 0 .. 7, NEW w, w = Jump(a, k)
    PROVE  /\ w \in Word16 /\ w # 0
           /\ Bits(w, 15, 14) = 1
           /\ Bits(w, 15, 3) # 3072
           /\ Bits(w, 15, 9) = 56
           /\ Bits(w, 15, 12) = 7
           /\ Bits(w, 13, 13) = 1
           /\ Bits(w, 15, 6) = 448 + k
           /\ Bits(w, 8, 6) = k
           /\ Bits(w, 3, 0) = a
           /\ Bits(w, 5, 0) = a
           /\ w \notin {16384, 18432, 20480}
<1>0. w = 28672 + 64 * k + a
    BY DEF Jump
<1>1. w \in Word16 /\ w # 0
    BY <1>0, WordRange
<1>2. (w \div 16384) % 4 = 1
    BY <1>0
<1>3. (w \div 8) % 8192 # 3072
    BY <1>0
<1>4. (w \div 512) % 128 = 56
    BY <1>0
<1>5. (w \div 4096) % 16 = 7
    BY <1>0
<1>6. (w \div 8192) % 2 = 1
    BY <1>0
<1>7. (w \div 64) % 1024 = 448 + k
  <2>1. w \div 64 = 448 + k
    BY <1>0
  <2>2. (448 + k) % 1024 = 448 + k
    OBVIOUS
  <2> QED BY <2>1, <2>2
<1>8. (w \div 64) % 8 = k
  <2>1. w \div 64 = 448 + k
    BY <1>0
  <2>2. (448 + k) % 8 = k
    OBVIOUS
  <2> QED BY <2>1, <2>2
<1>9. w % 16 = a
    BY <1>0
<1>10. w % 64 = a
    BY <1>0
<1>11. w \notin {16384, 18432, 20480}
    BY <1>0
<1> QED BY <1>1, <1>2, <1>3, <1>4, <1>5, <1>6, <1>7, <1>8, <1>9, <1>10, <1>11, Fields

LEMMA JroWord ==
    ASSUME NEW c \in 0 .. 7, NEW w, w = Jro(c)
    PROVE  /\ w \in Word16 /\ w # 0
           /\ Bits(w, 15, 14) = 1
           /\ Bits(w, 15, 3) = 3072
           /\ Bits(w, 15, 9) # 56
           /\ Bits(w, 15, 12) = 6
           /\ Bits(w, 13, 13) = 1
           /\ Bits(w, 2, 0) = c
           /\ w \notin {16384, 18432, 20480}
<1>0. w = 24576 + c
    BY DEF Jro
<1>1. w \in Word16 /\ w # 0
    BY <1>0, WordRange
<1>2. (w \div 16384) % 4 = 1
    BY <1>0
<1>3. (w \div 8) % 8192 = 3072
  <2>1. w \div 8 = 3072
    BY <1>0
  <2>2. (3072) % 8192 = 3072
    OBVIOUS
  <2> QED BY <2>1, <2>2
<1>4. (w \div 512) % 128 # 56
    BY <1>0
<1>5. (w \div 4096) % 16 = 6
    BY <1>0
<1>6. (w \div 8192) % 2 = 1
    BY <1>0
<1>7. w % 8 = c
    BY <1>0
<1>8. w \notin {16384, 18432, 20480}
    BY <1>0
<1> QED BY <1>1, <1>2, <1>3, <1>4, <1>5, <1>6, <1>7, <1>8, Fields

LEMMA BareWord ==
    ASSUME NEW n \in {16384, 18432, 20480}, NEW w, w = n
    PROVE  /\ w \in Word16 /\ w # 0
           /\ Bits(w, 15, 14) = 1
           /\ Bits(w, 15, 3) # 3072
           /\ Bits(w, 15, 9) # 56
           /\ Bits(w, 15, 12) \notin {0, 6, 7}
           /\ Bits(w, 13, 13) = 0
<1>1. w \in Word16 /\ w # 0
    BY WordRange
<1>2. (w \div 16384) % 4 = 1
    OBVIOUS
<1>3. (w \div 8) % 8192 # 3072
    OBVIOUS
<1>4. (w \div 512) % 128 # 56
    OBVIOUS
<1>5. (w \div 4096) % 16 \notin {0, 6, 7}
    OBVIOUS
<1>6. (w \div 8192) % 2 = 0
    OBVIOUS
<1> QED BY <1>1, <1>2, <1>3, <1>4, <1>5, <1>6, Fields

-----------------------------------------------------------------------------
(* Lines: what each kind of line is encoded as. *)

LEMMA OperandKinds ==
    ASSUME NEW o \in Operands
    PROVE  /\ o.kind \in {"none", "register", "name", "number"}
           /\ o.kind = "none" => o = NoOperand
           /\ o.kind = "register" => o.name \in Registers /\ o = OfReg(o.name)
           /\ o.kind = "number" => o.number \in Int /\ o = OfNumber(o.number)
           /\ o.number \in Int
BY DEF Operands, NoOperand, OfReg, OfName, OfNumber

Assemblable(line) ==
    line \in TextLines /\ line.op # NoOpcode /\ ~Unreadable(line)

LEMMA AssemblableLine ==
    ASSUME NEW line, Assemblable(line)
    PROVE  /\ line.op \in Opcodes
           /\ line.src \in Operands /\ line.dst \in Operands
           /\ line.op \in {"ADD", "SUB", "MOV", "JRO"} => line.src.kind \in {"register", "number"}
           /\ line.op = "MOV" => line.dst.kind = "register"
<1>1. line.src \in Operands /\ line.dst \in Operands /\ line.op \in Opcodes
    BY DEF Assemblable, Unreadable, TextLines
<1>2. line.src.kind \in {"none", "register", "name", "number"}
    BY <1>1, OperandKinds
<1>3. line.op \in {"ADD", "SUB", "MOV", "JRO"} => asm_operands(line.op) > 0 /\ line.op \notin Jumps
    BY DEF asm_operands, Jumps
<1>4. line.op \in {"ADD", "SUB", "MOV", "JRO"} => line.src.kind # "none" /\ line.src.kind # "name"
    BY <1>3 DEF Assemblable, Unreadable
<1>5. line.op = "MOV" => line.dst.kind = "register"
    BY DEF Assemblable, Unreadable
<1> QED BY <1>1, <1>2, <1>4, <1>5

LEMMA MagnitudeSmall ==
    ASSUME NEW n \in Int
    PROVE  Magnitude(n) \in Nat /\ Magnitude(n) <= 999
BY DEF Magnitude

LEMMA ClampMagnitude ==
    ASSUME NEW n \in Int
    PROVE  /\ Clamp(n) = IF n >= 0 THEN Magnitude(n) ELSE -Magnitude(n)
           /\ Clamp(-n) = IF n >= 0 THEN -Magnitude(n) ELSE Magnitude(n)
BY DEF Magnitude, Clamp

(* Words of lines of which nothing but kinds and signs is known. *)
LEMMA BareLine ==
    ASSUME NEW line, Assemblable(line), line.op \in {"NOP", "SWP", "SAV", "NEG"}
    PROVE  Encode(line) = asm_codes(line.op)
<1>1. SourceBits(line) = 0
    BY DEF SourceBits, asm_operands
<1>2. DestinationBits(line) = 0
    BY DEF DestinationBits
<1>3. asm_codes(line.op) \in Nat
    BY DEF asm_codes
<1> QED BY <1>1, <1>2, <1>3 DEF Encode

LEMMA JumpLine ==
    ASSUME NEW line, Assemblable(line), line.op \in Jumps
    PROVE  Encode(line) = asm_codes(line.op)
<1>1. SourceBits(line) = 0
    BY DEF SourceBits
<1>2. DestinationBits(line) = 0
    BY DEF DestinationBits, Jumps
<1>3. asm_codes(line.op) \in Nat
    BY DEF asm_codes, Jumps
<1> QED BY <1>1, <1>2, <1>3 DEF Encode

LEMMA RegisterLine ==
    ASSUME NEW line, Assemblable(line), line.src.kind = "register",
           line.op \in {"ADD", "SUB", "JRO", "MOV"}
    PROVE  LET c == tis_register_encode(line.src.name) IN
           /\ c \in 0 .. 7 /\ Register(c) = line.src.name
           /\ line.op = "ADD" => Encode(line) = c + 2048
           /\ line.op = "SUB" => Encode(line) = 1024 + (c + 2048)
           /\ line.op = "JRO" => Encode(line) = 24576 + c
           /\ line.op = "MOV" =>
                  Encode(line) = 32768 + (c + 16384) + 2048 * tis_register_encode(line.dst.name)
<1> DEFINE c == tis_register_encode(line.src.name)
           d == tis_register_encode(line.dst.name)
<1>1. line.src.name \in Registers
    BY AssemblableLine, OperandKinds
<1>2. c \in 0 .. 7 /\ Register(c) = line.src.name
    BY <1>1, RegisterCoded
<1>3. line.op = "MOV" => d \in 0 .. 7
  <2>1. line.op = "MOV" => line.dst.name \in Registers
    BY AssemblableLine, OperandKinds
  <2> QED BY <2>1, RegisterCoded
<1> HIDE DEF c, d
<1>4. SourceBits(line) = c + (CASE line.op = "MOV" -> 16384
                                [] line.op \in {"ADD", "SUB"} -> 2048
                                [] OTHER -> 0)
  <2>1. line.op \notin Jumps /\ asm_operands(line.op) # 0
    BY DEF Jumps, asm_operands
  <2> QED BY <2>1 DEF SourceBits, c
<1>5. DestinationBits(line) = IF line.op = "MOV" THEN 2048 * d ELSE 0
    BY DEF DestinationBits, d
<1>6. asm_codes("ADD") = 0 /\ asm_codes("SUB") = 1024 /\ asm_codes("JRO") = 24576
      /\ asm_codes("MOV") = 32768
    BY DEF asm_codes
<1>7. CASE line.op = "ADD"
    BY <1>2, <1>4, <1>5, <1>6, <1>7 DEF Encode, c
<1>8. CASE line.op = "SUB"
    BY <1>2, <1>4, <1>5, <1>6, <1>8 DEF Encode, c
<1>9. CASE line.op = "JRO"
    BY <1>2, <1>4, <1>5, <1>6, <1>9 DEF Encode, c
<1>10. CASE line.op = "MOV"
    BY <1>2, <1>3, <1>4, <1>5, <1>6, <1>10 DEF Encode, c, d
<1> QED BY <1>7, <1>8, <1>9, <1>10

(* The exclusive or with the sign: SUB of a negative number is ADD. *)
LEMMA NumberLine ==
    ASSUME NEW line, Assemblable(line), line.src.kind = "number",
           line.op \in {"ADD", "SUB", "JRO", "MOV"}
    PROVE  LET m == Magnitude(line.src.number)
               d == tis_register_encode(line.dst.name)
           IN
           /\ line.src.number \in Int /\ m \in Nat /\ m <= 999
           /\ line.op = "ADD" => Encode(line) = IF line.src.number >= 0 THEN m ELSE 1024 + m
           /\ line.op = "SUB" => Encode(line) = IF line.src.number >= 0 THEN 1024 + m ELSE m
           /\ line.op = "JRO" => Encode(line) = 24576
           /\ line.op = "MOV" =>
                  Encode(line) = IF line.src.number >= 0 THEN 32768 + m + 2048 * d
                                                         ELSE 32768 + (1024 + m) + 2048 * d
<1> DEFINE m == Magnitude(line.src.number)
           d == tis_register_encode(line.dst.name)
<1>1. line.src.number \in Int
    BY AssemblableLine, OperandKinds
<1>2. m \in Nat /\ m <= 999
    BY <1>1, MagnitudeSmall
<1>3. line.op = "MOV" => d \in 0 .. 7
  <2>1. line.op = "MOV" => line.dst.name \in Registers
    BY AssemblableLine, OperandKinds
  <2> QED BY <2>1, RegisterCoded
<1> HIDE DEF m, d
<1>4. SourceBits(line) =
          IF line.op = "JRO" THEN 0
          ELSE m + (IF line.src.number >= 0 THEN 0 ELSE IF line.op = "SUB" THEN -1024 ELSE 1024)
  <2>1. line.op \notin Jumps /\ asm_operands(line.op) # 0
    BY DEF Jumps, asm_operands
  <2> QED BY <2>1 DEF SourceBits, m
<1>5. DestinationBits(line) = IF line.op = "MOV" THEN 2048 * d ELSE 0
    BY DEF DestinationBits, d
<1>6. asm_codes("ADD") = 0 /\ asm_codes("SUB") = 1024 /\ asm_codes("JRO") = 24576
      /\ asm_codes("MOV") = 32768
    BY DEF asm_codes
<1>7. CASE line.op = "ADD"
    BY <1>1, <1>2, <1>4, <1>5, <1>6, <1>7 DEF Encode, m
<1>8. CASE line.op = "SUB"
    BY <1>1, <1>2, <1>4, <1>5, <1>6, <1>8 DEF Encode, m
<1>9. CASE line.op = "JRO"
    BY <1>1, <1>2, <1>4, <1>5, <1>6, <1>9 DEF Encode, m
<1>10. CASE line.op = "MOV"
    BY <1>1, <1>2, <1>3, <1>4, <1>5, <1>6, <1>10 DEF Encode, m, d
<1> QED BY <1>7, <1>8, <1>9, <1>10

-----------------------------------------------------------------------------
(* What the node does with such words, and the disassembler prints. *)

LEMMA AluRegisterEffect ==
    ASSUME NEW c \in 0 .. 7, NEW s \in 0 .. 1, NEW w, w = AluRegister(c, s)
    PROVE  LET op == IF s = 1 THEN "SUB" ELSE "ADD" IN
           /\ w \in Word16 /\ w # 0
           /\ Effect(w) = [do |-> op, with |-> OfReg(Register(c)), to |-> NoName]
           /\ Disassembled(w) = Line(NoName, op, OfReg(Register(c)), NoOperand)
<1> DEFINE op == IF s = 1 THEN "SUB" ELSE "ADD"
<1>1. /\ w \in Word16 /\ w # 0
      /\ Bits(w, 15, 14) = 0 /\ Bits(w, 15, 12) = 0 /\ Bits(w, 15, 3) # 3072
      /\ Bits(w, 15, 9) # 56 /\ Bits(w, 13, 13) = 0
      /\ Bits(w, 11, 11) = 1 /\ Bits(w, 10, 10) = s /\ Bits(w, 2, 0) = c
      /\ w \notin {16384, 18432, 20480}
    BY AluRegisterWord
<1>2. Group(w) = "alu_register"
    BY <1>1 DEF Group
<1>3. Operation(w) = op
    BY <1>1 DEF Operation
<1>4. Source(w) = Register(c)
    BY <1>1 DEF Source
<1>5. Effect(w) = [do |-> op, with |-> OfReg(Register(c)), to |-> NoName]
    BY <1>2, <1>3, <1>4 DEF Effect
<1>6. Disassembled(w) = Line(NoName, op, OfReg(Register(c)), NoOperand)
    BY <1>1, <1>4 DEF Disassembled
<1> QED BY <1>1, <1>5, <1>6

LEMMA AluImmediateEffect ==
    ASSUME NEW v \in Nat, v <= 999, NEW s \in 0 .. 1, NEW w, w = AluNumber(v, s)
    PROVE  /\ w \in Word16
           /\ Effect(w) = [do |-> "ADD", to |-> NoName,
                           with |-> OfNumber(IF s = 1 THEN -v ELSE v)]
           /\ Disassembled(w) =
                  IF w = 0 THEN Line(NoName, "NOP", NoOperand, NoOperand)
                  ELSE Line(NoName, IF s = 1 THEN "SUB" ELSE "ADD", OfNumber(v), NoOperand)
<1>1. /\ w \in Word16
      /\ Bits(w, 15, 14) = 0 /\ Bits(w, 15, 12) = 0 /\ Bits(w, 15, 3) # 3072
      /\ Bits(w, 15, 9) # 56 /\ Bits(w, 13, 13) = 0
      /\ Bits(w, 11, 11) = 0 /\ Bits(w, 10, 10) = s /\ Bits(w, 9, 0) = v
      /\ w \notin {16384, 18432, 20480}
    BY AluImmediateWord
<1>2. Group(w) = "alu_immediate"
    BY <1>1 DEF Group
<1>3. Operation(w) = IF s = 1 THEN "SUB" ELSE "ADD"
    BY <1>1 DEF Operation
<1>4. AluImmediate(w) = v
    BY <1>1 DEF AluImmediate
<1>5. Effect(w) = [do |-> "ADD", to |-> NoName, with |-> OfNumber(IF s = 1 THEN -v ELSE v)]
    BY <1>2, <1>3, <1>4 DEF Effect
<1>6. Disassembled(w) =
          IF w = 0 THEN Line(NoName, "NOP", NoOperand, NoOperand)
          ELSE Line(NoName, IF s = 1 THEN "SUB" ELSE "ADD", OfNumber(v), NoOperand)
    BY <1>1 DEF Disassembled
<1> QED BY <1>1, <1>5, <1>6

LEMMA MovRegisterEffect ==
    ASSUME NEW c \in 0 .. 7, NEW d \in 0 .. 7, NEW w, w = MovRegister(c, d)
    PROVE  /\ w \in Word16
           /\ KeepsOperand("MOV", Register(c), Register(d)) =>
                  Effect(w) = [do |-> "MOV", with |-> OfReg(Register(c)), to |-> Register(d)]
           /\ Disassembled(w) = Line(NoName, "MOV", OfReg(Register(c)), OfReg(Register(d)))
<1>1. /\ w \in Word16 /\ w # 0
      /\ Bits(w, 15, 14) = 3 /\ Bits(w, 2, 0) = c /\ Bits(w, 13, 11) = d
      /\ Bits(w, 15, 12) \notin {0, 6, 7} /\ Bits(w, 15, 3) # 3072 /\ Bits(w, 15, 9) # 56
      /\ w \notin {16384, 18432, 20480}
    BY MovRegisterWord
<1>2. Group(w) = "mov_register" /\ Operation(w) = "other"
    BY <1>1 DEF Group, Operation
<1>3. Source(w) = Register(c) /\ Destination(w) = Register(d)
    BY <1>1 DEF Source, Destination
<1>4. KeepsOperand("MOV", Register(c), Register(d)) =>
          Effect(w) = [do |-> "MOV", with |-> OfReg(Register(c)), to |-> Register(d)]
    BY <1>2, <1>3 DEF Effect
<1>5. Disassembled(w) = MovText(w)
    BY <1>1 DEF Disassembled
<1> QED BY <1>1, <1>3, <1>4, <1>5 DEF MovText

LEMMA MovImmediateEffect ==
    ASSUME NEW v \in Nat, v <= 999, NEW d \in 0 .. 7, NEW w, w = MovNumber(v, d)
    PROVE  /\ w \in Word16
           /\ Effect(w) = [do |-> "MOV", with |-> OfNumber(v), to |-> Register(d)]
           /\ Disassembled(w) = Line(NoName, "MOV", OfNumber(v), OfReg(Register(d)))
<1>1. /\ w \in Word16 /\ w # 0
      /\ Bits(w, 15, 14) = 2 /\ Bits(w, 10, 0) = v /\ Bits(w, 13, 11) = d
      /\ Bits(w, 15, 12) \notin {0, 6, 7} /\ Bits(w, 15, 3) # 3072 /\ Bits(w, 15, 9) # 56
      /\ w \notin {16384, 18432, 20480}
    BY MovImmediateWord
<1>2. Group(w) = "mov_immediate" /\ Operation(w) = "other"
    BY <1>1 DEF Group, Operation
<1>3. Destination(w) = Register(d)
    BY <1>1 DEF Destination
<1>4. MovImmediate(w) = v
  <2>1. Wrap11(v) = v
    BY DEF Wrap11
  <2> QED BY <1>1, <2>1 DEF MovImmediate
<1>5. Effect(w) = [do |-> "MOV", with |-> OfNumber(v), to |-> Register(d)]
    BY <1>2, <1>3, <1>4 DEF Effect
<1>6. Disassembled(w) = Line(NoName, "MOV", OfNumber(v), OfReg(Register(d)))
    BY <1>1, <1>3 DEF Disassembled
<1> QED BY <1>1, <1>5, <1>6

JumpCode(op) ==
    CASE op = "JMP" -> 0 [] op = "JEZ" -> 1 [] op = "JLZ" -> 2 [] OTHER -> 4

LEMMA JumpEffect ==
    ASSUME NEW op \in {"JMP", "JEZ", "JLZ", "JGZ"}, NEW a \in 0 .. 15,
           NEW w, w = Jump(a, JumpCode(op))
    PROVE  /\ w \in Word16
           /\ Effect(w) = [do |-> op, with |-> OfNumber(a), to |-> NoName]
           /\ op # "JGZ" => Disassembled(w) = Line(NoName, op, OfNumber(a), NoOperand)
<1> DEFINE k == JumpCode(op)
<1>0. k \in 0 .. 7
    BY DEF JumpCode
<1>1. /\ w \in Word16 /\ w # 0
      /\ Bits(w, 15, 14) = 1 /\ Bits(w, 15, 3) # 3072 /\ Bits(w, 15, 9) = 56
      /\ Bits(w, 15, 12) = 7 /\ Bits(w, 15, 6) = 448 + k
      /\ Bits(w, 8, 6) = k /\ Bits(w, 3, 0) = a /\ Bits(w, 5, 0) = a
      /\ Bits(w, 13, 13) = 1 /\ w \notin {16384, 18432, 20480}
    BY <1>0, JumpWord
<1>2. Group(w) = "no_operand" /\ Operation(w) = "JMP" /\ Target(w) = a
    BY <1>1 DEF Group, Operation, Target
<1>3. Effect(w) = [do |-> Condition(w), with |-> OfNumber(a), to |-> NoName]
    BY <1>2 DEF Effect
<1>4. Condition(w) = op
    BY <1>1 DEF Condition, JumpCode
<1>5. op # "JGZ" => Disassembled(w) = Line(NoName, op, OfNumber(a), NoOperand)
    BY <1>1 DEF Disassembled, JumpCode
<1> QED BY <1>1, <1>3, <1>4, <1>5

LEMMA JroText ==
    ASSUME NEW c \in 0 .. 7, NEW w, w = Jro(c)
    PROVE  Disassembled(w) = Line(NoName, "JRO", OfReg(Register(c)), NoOperand)
<1>1. /\ w \in Word16 /\ w # 0
      /\ Bits(w, 15, 14) = 1 /\ Bits(w, 15, 12) = 6 /\ Bits(w, 2, 0) = c
      /\ Bits(w, 13, 13) = 1
    BY JroWord
<1>2. Source(w) = Register(c)
    BY <1>1 DEF Source
<1> QED BY <1>1, <1>2 DEF Disassembled

LEMMA BareEffect ==
    ASSUME NEW op \in {"SWP", "SAV", "NEG"}, NEW w, w = asm_codes(op)
    PROVE  /\ w \in Word16
           /\ Effect(w) = [do |-> op, with |-> NoOperand, to |-> NoName]
           /\ Disassembled(w) = Line(NoName, op, NoOperand, NoOperand)
<1>0. /\ w \in {16384, 18432, 20480}
      /\ op = (CASE w = 16384 -> "SAV" [] w = 18432 -> "NEG" [] OTHER -> "SWP")
    BY DEF asm_codes
<1>1. /\ w \in Word16 /\ w # 0
      /\ Bits(w, 15, 14) = 1 /\ Bits(w, 15, 3) # 3072 /\ Bits(w, 15, 9) # 56
      /\ Bits(w, 15, 12) \notin {0, 6, 7} /\ Bits(w, 13, 13) = 0
    BY <1>0, BareWord
<1>2. Group(w) = "no_operand" /\ Operation(w) = op
    BY <1>0, <1>1 DEF Group, Operation
<1>3. Effect(w) = [do |-> op, with |-> NoOperand, to |-> NoName]
    BY <1>2 DEF Effect
<1>4. Disassembled(w) = Line(NoName, op, NoOperand, NoOperand)
    BY <1>0, <1>1 DEF Disassembled
<1> QED BY <1>1, <1>3, <1>4

-----------------------------------------------------------------------------
(* Labels. *)

LEMMA OrOfOne ==
    ASSUME NEW a \in 0 .. 15
    PROVE  BitwiseOr({a}) = a
<1> DEFINE b(i) == IF Bits(a, i, i) = 1 THEN 2^i ELSE 0
<1>1. BitwiseOr({a}) = b(0) + b(1) + b(2) + b(3)
    BY DEF BitwiseOr
<1>2. /\ b(0) = a % 2 /\ b(1) = 2 * ((a \div 2) % 2)
      /\ b(2) = 4 * ((a \div 4) % 2) /\ b(3) = 8 * ((a \div 8) % 2)
    BY DEF Bits
<1> HIDE DEF b
<1>3. (a % 2) + 2 * ((a \div 2) % 2) + 4 * ((a \div 4) % 2) + 8 * ((a \div 8) % 2) = a
    OBVIOUS
<1> QED BY <1>1, <1>2, <1>3

LEMMA OrSmall ==
    ASSUME NEW S
    PROVE  BitwiseOr(S) \in 0 .. 15
<1> DEFINE b(i) == IF \E a \in S : Bits(a, i, i) = 1 THEN 2^i ELSE 0
<1>1. BitwiseOr(S) = b(0) + b(1) + b(2) + b(3)
    BY DEF BitwiseOr
<1>2. b(0) \in {0, 1} /\ b(1) \in {0, 2} /\ b(2) \in {0, 4} /\ b(3) \in {0, 8}
    <2>1. 2^0 = 1 /\ 2^1 = 2 /\ 2^2 = 4 /\ 2^3 = 8
        OBVIOUS
    <2> QED BY <2>1
<1> HIDE DEF b
<1> QED BY <1>1, <1>2

(* The address a jump gets is that of the one label of the name. *)
LEMMA OnePosition ==
    ASSUME NEW text \in Seq(TextLines), Len(text) <= 15, NEW name,
           Cardinality(Positions(text, name)) = 1
    PROVE  /\ BitwiseOr(Positions(text, name)) \in Positions(text, name)
           /\ BitwiseOr(Positions(text, name)) = CHOOSE a \in Positions(text, name) : TRUE
<1> DEFINE P == Positions(text, name)
<1>1. P \subseteq 0 .. Len(text) /\ Len(text) \in Nat
  <2>1. ASSUME NEW n \in Labelled(text) PROVE AddressOf(text, n) \in 0 .. Len(text)
    <3>1. n \in 1 .. Len(text) /\ Len(text) \in Nat
        BY DEF Labelled
    <3>2. AddressOf(text, n) \in 0 .. n - 1
        BY <3>1, AddressStep
    <3> QED BY <3>1, <3>2
  <2> QED BY <2>1 DEF Positions
<1>2. IsFiniteSet(0 .. Len(text))
    BY <1>1, FS_Interval
<1>3. IsFiniteSet(P)
    BY <1>1, <1>2, FS_Subset
<1> HIDE DEF P
<1>4. \E a : P = {a}
    BY <1>3, FS_Singleton DEF P
<1>5. PICK a : P = {a}
    BY <1>4
<1>6. a \in 0 .. 15
    BY <1>1, <1>5
<1>7. BitwiseOr(P) = a
    BY <1>5, <1>6, OrOfOne
<1>8. (CHOOSE x \in P : TRUE) = a
    BY <1>5
<1> QED BY <1>5, <1>7, <1>8 DEF P

-----------------------------------------------------------------------------
(* What is assembled is what is meant. *)

(* No word is wider than a halfword. *)
LEMMA WordsFit ==
    ASSUME NEW text, NEW line, Assemblable(line)
    PROVE  Linked(text, line) \in Word16
<1> DEFINE j == IF line.op \in Jumps THEN BitwiseOr(Positions(text, line.src.name)) ELSE 0
<1>1. Linked(text, line) = Encode(line) + j
    BY DEF Linked
<1>2. j \in 0 .. 15 /\ (line.op \notin Jumps => j = 0)
    BY OrSmall
<1>3. line.op \in Opcodes
    BY AssemblableLine
<1> HIDE DEF j
<1>4. CASE line.op \in {"NOP", "SWP", "SAV", "NEG"}
  <2>1. Encode(line) \in Nat /\ Encode(line) <= 20480
    BY <1>4, BareLine DEF asm_codes
  <2> QED BY <2>1, <1>1, <1>2, WordRange
<1>5. CASE line.op \in Jumps
  <2>1. Encode(line) \in Nat /\ Encode(line) <= 28944
    BY <1>5, JumpLine DEF asm_codes, Jumps
  <2> QED BY <2>1, <1>1, <1>2, WordRange
<1>6. CASE line.op \in {"ADD", "SUB", "JRO", "MOV"}
  <2>1. line.op = "MOV" => tis_register_encode(line.dst.name) \in 0 .. 7
    <3>1. line.op = "MOV" => line.dst.name \in Registers
        BY AssemblableLine, OperandKinds
    <3> QED BY <3>1, RegisterCoded
  <2>2. j = 0
    BY <1>2, <1>6 DEF Jumps
  <2>3. CASE line.src.kind = "register"
    <3> DEFINE c == tis_register_encode(line.src.name)
               d == tis_register_encode(line.dst.name)
    <3>1. /\ c \in 0 .. 7 
          /\ line.op = "ADD" => Encode(line) = c + 2048
          /\ line.op = "SUB" => Encode(line) = 1024 + (c + 2048)
          /\ line.op = "JRO" => Encode(line) = 24576 + c
          /\ line.op = "MOV" => Encode(line) = 32768 + (c + 16384) + 2048 * d
        BY <1>6, <2>3, RegisterLine
    <3> HIDE DEF c
    <3> QED BY <3>1, <1>1, <1>6, <2>1, <2>2, WordRange
  <2>4. CASE line.src.kind = "number"
    <3> DEFINE m == Magnitude(line.src.number)
               d == tis_register_encode(line.dst.name)
    <3>1. /\ line.src.number \in Int /\ m \in Nat /\ m <= 999
          /\ line.op = "ADD" => Encode(line) = IF line.src.number >= 0 THEN m ELSE 1024 + m
          /\ line.op = "SUB" => Encode(line) = IF line.src.number >= 0 THEN 1024 + m ELSE m
          /\ line.op = "JRO" => Encode(line) = 24576
          /\ line.op = "MOV" =>
                 Encode(line) = IF line.src.number >= 0 THEN 32768 + m + 2048 * d
                                                        ELSE 32768 + (1024 + m) + 2048 * d
        BY <1>6, <2>4, NumberLine
    <3> HIDE DEF m
    <3> QED BY <3>1, <1>1, <1>6, <2>1, <2>2, WordRange
  <2> QED BY <1>6, <2>3, <2>4, AssemblableLine
<1> QED BY <1>3, <1>4, <1>5, <1>6 DEF Opcodes, Jumps

(* What a line means comes back from what it is assembled to, through the  *)
(* node and through the disassembler.                                      *)
SameAsText(line, w) ==
    /\ KeepsOperand(line.op, line.src.name, line.dst.name) => Effect(w) = Meaning(line)
    /\ line.op # "JGZ" =>
           IF line.op \in Jumps
             THEN /\ Disassembled(w).op = line.op
                  /\ Disassembled(w).src.number \in Positions(lines, line.src.name)
             ELSE Meaning(Disassembled(w)) = Meaning(line)

LEMMA BareIsMeant ==
    ASSUME NEW line, Assemblable(line), line.op \in {"NOP", "SWP", "SAV", "NEG"}
    PROVE  SameAsText(line, Linked(lines, line))
<1> DEFINE w == Linked(lines, line)
<1>1. w = asm_codes(line.op)
  <2>1. Encode(line) = asm_codes(line.op) /\ line.op \notin Jumps
    BY BareLine DEF Jumps
  <2>2. asm_codes(line.op) \in Int
    BY DEF asm_codes
  <2> QED BY <2>1, <2>2 DEF Linked
<1>2. CASE line.op = "NOP"
  <2>1. w = AluNumber(0, 0) /\ w = 0
    BY <1>1, <1>2 DEF asm_codes, AluNumber
  <2> HIDE DEF w
  <2>2. /\ Effect(w) = [do |-> "ADD", with |-> OfNumber(0), to |-> NoName]
        /\ Disassembled(w) = Line(NoName, "NOP", NoOperand, NoOperand)
    <3>1. /\ Effect(w) = [do |-> "ADD", to |-> NoName, with |-> OfNumber(IF 0 = 1 THEN -0 ELSE 0)]
          /\ Disassembled(w) =
                 IF w = 0 THEN Line(NoName, "NOP", NoOperand, NoOperand)
                 ELSE Line(NoName, IF 0 = 1 THEN "SUB" ELSE "ADD", OfNumber(0), NoOperand)
        BY <2>1, AluImmediateEffect
    <3> QED BY <3>1, <2>1
  <2>3. \A any : any.op = "NOP" => Meaning(any) = [do |-> "ADD", with |-> OfNumber(0), to |-> NoName]
    BY DEF Meaning, Jumps
  <2>4. Disassembled(w).op = "NOP"
    BY <2>2 DEF Line
  <2> QED BY <1>2, <2>2, <2>3, <2>4 DEF SameAsText, Jumps, w
<1>3. CASE line.op \in {"SWP", "SAV", "NEG"}
  <2> HIDE DEF w
  <2>1. /\ Effect(w) = [do |-> line.op, with |-> NoOperand, to |-> NoName]
        /\ Disassembled(w) = Line(NoName, line.op, NoOperand, NoOperand)
    BY <1>1, <1>3, BareEffect
  <2>2. \A any : any.op \in {"SWP", "SAV", "NEG"} =>
            Meaning(any) = [do |-> any.op, with |-> NoOperand, to |-> NoName]
    BY DEF Meaning, Jumps
  <2>3. Disassembled(w).op = line.op
    BY <2>1 DEF Line
  <2> QED BY <1>3, <2>1, <2>2, <2>3 DEF SameAsText, Jumps, w
<1> QED BY <1>2, <1>3

LEMMA RegisterIsMeant ==
    ASSUME NEW line, Assemblable(line), line.op \in {"ADD", "SUB", "JRO", "MOV"},
           line.src.kind = "register"
    PROVE  SameAsText(line, Linked(lines, line))
<1> DEFINE w == Linked(lines, line)
           c == tis_register_encode(line.src.name)
           d == tis_register_encode(line.dst.name)
<1>1. line.src \in Operands /\ line.src = OfReg(line.src.name)
    BY AssemblableLine, OperandKinds
<1>2. /\ c \in 0 .. 7 /\ Register(c) = line.src.name
      /\ line.op = "ADD" => Encode(line) = c + 2048
      /\ line.op = "SUB" => Encode(line) = 1024 + (c + 2048)
      /\ line.op = "JRO" => Encode(line) = 24576 + c
      /\ line.op = "MOV" => Encode(line) = 32768 + (c + 16384) + 2048 * d
    BY RegisterLine
<1>3. line.op = "MOV" => d \in 0 .. 7 /\ Register(d) = line.dst.name
  <2>1. line.op = "MOV" => line.dst.name \in Registers
    BY AssemblableLine, OperandKinds
  <2> QED BY <2>1, RegisterCoded
<1> HIDE DEF c, d
<1>4. Encode(line) \in Int => w = Encode(line)
    BY DEF Linked, Jumps
<1> HIDE DEF w
<1>5. CASE line.op \in {"ADD", "SUB"}
  <2> DEFINE s == IF line.op = "SUB" THEN 1 ELSE 0
  <2>1. w = AluRegister(c, s)
    BY <1>2, <1>4, <1>5 DEF AluRegister
  <2>2. s \in 0 .. 1 /\ line.op = IF s = 1 THEN "SUB" ELSE "ADD"
    BY <1>5
  <2> HIDE DEF s
  <2>3. /\ Effect(w) = [do |-> line.op, with |-> line.src, to |-> NoName]
        /\ Disassembled(w) = Line(NoName, line.op, line.src, NoOperand)
    BY <1>1, <1>2, <2>1, <2>2, AluRegisterEffect
  <2>4. \A any : any.op \in {"ADD", "SUB"} /\ any.src.kind # "number" =>
            Meaning(any) = [do |-> any.op, with |-> any.src, to |-> NoName]
    BY DEF Meaning, Jumps
  <2>5. Disassembled(w).op = line.op /\ Disassembled(w).src = line.src
    BY <2>3 DEF Line
  <2> QED BY <1>5, <2>3, <2>4, <2>5 DEF SameAsText, Jumps, w
<1>6. CASE line.op = "JRO"
  <2>1. w = Jro(c)
    BY <1>2, <1>4, <1>6 DEF Jro
  <2>2. Disassembled(w) = Line(NoName, "JRO", line.src, NoOperand)
    BY <1>1, <1>2, <2>1, JroText
  <2>3. \A any : any.op = "JRO" => Meaning(any) = [do |-> "JRO", with |-> any.src, to |-> NoName]
    BY DEF Meaning, Jumps
  <2>4. Disassembled(w).op = "JRO" /\ Disassembled(w).src = line.src
    BY <2>2 DEF Line
  <2> QED BY <1>6, <2>3, <2>4 DEF SameAsText, KeepsOperand, Jumps, w
<1>7. CASE line.op = "MOV"
  <2>1. w = MovRegister(c, d)
    BY <1>2, <1>3, <1>4, <1>7 DEF MovRegister
  <2>2. /\ KeepsOperand("MOV", line.src.name, line.dst.name) =>
               Effect(w) = [do |-> "MOV", with |-> line.src, to |-> line.dst.name]
        /\ Disassembled(w) = Line(NoName, "MOV", line.src, OfReg(line.dst.name))
    BY <1>1, <1>2, <1>3, <1>7, <2>1, MovRegisterEffect
  <2>3. \A any : any.op = "MOV" /\ any.src.kind # "number" =>
            Meaning(any) = [do |-> "MOV", to |-> any.dst.name, with |-> any.src]
    BY DEF Meaning, Jumps
  <2>4. /\ Disassembled(w).op = "MOV" /\ Disassembled(w).src = line.src
        /\ Disassembled(w).dst.name = line.dst.name
    BY <2>2 DEF Line, OfReg
  <2> QED BY <1>7, <2>2, <2>3, <2>4 DEF SameAsText, Jumps, w
<1> QED BY <1>5, <1>6, <1>7

LEMMA NumberIsMeant ==
    ASSUME NEW line, Assemblable(line), line.op \in {"ADD", "SUB", "MOV"},
           line.src.kind = "number", line.op = "MOV" => line.src.number >= 0
    PROVE  SameAsText(line, Linked(lines, line))
<1> DEFINE w == Linked(lines, line)
           n == line.src.number
           m == Magnitude(n)
           d == tis_register_encode(line.dst.name)
<1>1. /\ n \in Int /\ m \in Nat /\ m <= 999
      /\ line.op = "ADD" => Encode(line) = IF n >= 0 THEN m ELSE 1024 + m
      /\ line.op = "SUB" => Encode(line) = IF n >= 0 THEN 1024 + m ELSE m
      /\ line.op = "MOV" => Encode(line) = IF n >= 0 THEN 32768 + m + 2048 * d
                                                     ELSE 32768 + (1024 + m) + 2048 * d
    BY NumberLine
<1>2. line.op = "MOV" => d \in 0 .. 7 /\ Register(d) = line.dst.name
  <2>1. line.op = "MOV" => line.dst.name \in Registers
    BY AssemblableLine, OperandKinds
  <2> QED BY <2>1, RegisterCoded
<1>3. /\ Clamp(n) = IF n >= 0 THEN m ELSE -m
      /\ Clamp(-n) = IF n >= 0 THEN -m ELSE m
    BY <1>1, ClampMagnitude
<1>4. Clamp(m) = m /\ Clamp(-m) = -m
    BY <1>1 DEF Clamp
<1> HIDE DEF m, d
<1>5. Encode(line) \in Int => w = Encode(line)
    BY DEF Linked, Jumps
<1> HIDE DEF w
<1>6. CASE line.op \in {"ADD", "SUB"}
  <2> DEFINE s == IF (line.op = "SUB") = (n >= 0) THEN 1 ELSE 0
             v == IF s = 1 THEN -m ELSE m
             add == [do |-> "ADD", to |-> NoName, with |-> OfNumber(v)]
  <2>1. w = AluNumber(m, s) /\ s \in 0 .. 1
    BY <1>1, <1>5, <1>6 DEF AluNumber
  <2>2. Clamp(IF line.op = "ADD" THEN n ELSE -n) = v
    BY <1>1, <1>3, <1>6
  <2> HIDE DEF s
  <2>3. \A any : any.op \in {"ADD", "SUB"} /\ any.src.kind = "number" =>
            Meaning(any) = [do |-> "ADD", to |-> NoName,
                            with |-> OfNumber(Clamp(IF any.op = "ADD" THEN any.src.number ELSE -any.src.number))]
    BY DEF Meaning, Jumps
  <2>4. Meaning(line) = add
    BY <1>6, <2>2, <2>3
  <2>5. /\ Effect(w) = add
        /\ Disassembled(w) =
               IF w = 0 THEN Line(NoName, "NOP", NoOperand, NoOperand)
               ELSE Line(NoName, IF s = 1 THEN "SUB" ELSE "ADD", OfNumber(m), NoOperand)
    BY <1>1, <2>1, AluImmediateEffect
  <2>6. Meaning(Disassembled(w)) = add
    <3>1. CASE w = 0
      <4>1. m = 0 /\ v = 0
        BY <1>1, <2>1, <3>1 DEF AluNumber
      <4>2. \A any : any.op = "NOP" => Meaning(any) = [do |-> "ADD", with |-> OfNumber(0), to |-> NoName]
        BY DEF Meaning, Jumps
      <4>3. Disassembled(w).op = "NOP"
        BY <2>5, <3>1 DEF Line
      <4> QED BY <4>1, <4>2, <4>3
    <3>2. CASE w # 0
      <4>1. /\ Disassembled(w).op = IF s = 1 THEN "SUB" ELSE "ADD"
            /\ Disassembled(w).src.kind = "number" /\ Disassembled(w).src.number = m
        BY <2>5, <3>2 DEF Line, OfNumber
      <4>2. Clamp(IF Disassembled(w).op = "ADD" THEN m ELSE -m) = v
        BY <1>4, <2>1, <4>1
      <4> HIDE DEF v
      <4> QED BY <2>3, <4>1, <4>2
    <3> QED BY <3>1, <3>2
  <2> QED BY <1>6, <2>4, <2>5, <2>6 DEF SameAsText, Jumps, w
<1>7. CASE line.op = "MOV"
  <2> DEFINE mov == [do |-> "MOV", to |-> line.dst.name, with |-> OfNumber(m)]
  <2>0. n >= 0
    BY <1>7
  <2>1. w = MovNumber(m, d)
    BY <1>1, <1>2, <1>5, <1>7, <2>0 DEF MovNumber
  <2>2. \A any : any.op = "MOV" /\ any.src.kind = "number" =>
            Meaning(any) = [do |-> "MOV", to |-> any.dst.name, with |-> OfNumber(Clamp(any.src.number))]
    BY DEF Meaning, Jumps
  <2>3. /\ Effect(w) = mov
        /\ Disassembled(w) = Line(NoName, "MOV", OfNumber(m), OfReg(line.dst.name))
    BY <1>1, <1>2, <1>7, <2>1, MovImmediateEffect
  <2>4. Meaning(line) = mov
    BY <1>3, <1>7, <2>0, <2>2
  <2>5. /\ Disassembled(w).op = "MOV" /\ Disassembled(w).src.kind = "number"
        /\ Disassembled(w).src.number = m /\ Disassembled(w).dst.name = line.dst.name
    BY <2>3 DEF Line, OfReg, OfNumber
  <2>6. Meaning(Disassembled(w)) = mov
    BY <1>4, <2>2, <2>5
  <2> QED BY <1>7, <2>3, <2>4, <2>6 DEF SameAsText, Jumps, w
<1> QED BY <1>6, <1>7

LEMMA JumpIsMeant ==
    ASSUME NEW line, Assemblable(line), line.op \in {"JMP", "JEZ", "JLZ", "JGZ"},
           lines \in Seq(TextLines), Len(lines) <= 15,
           Cardinality(Positions(lines, line.src.name)) = 1
    PROVE  SameAsText(line, Linked(lines, line))
<1> DEFINE w == Linked(lines, line)
           P == Positions(lines, line.src.name)
           a == BitwiseOr(P)
           k == JumpCode(line.op)
<1>1. /\ a \in P /\ a = CHOOSE x \in P : TRUE
      /\ a \in 0 .. 15
    BY OnePosition, OrSmall
<1> HIDE DEF P, a
<1>2. w = Encode(line) + a
    BY DEF Linked, Jumps, a, P
<1>3. Encode(line) = 28672 + 64 * k /\ k \in 0 .. 7
  <2>1. Encode(line) = asm_codes(line.op)
    BY JumpLine DEF Jumps
  <2> QED BY <2>1 DEF asm_codes, JumpCode
<1>4. w = Jump(a, k)
    BY <1>2, <1>3 DEF Jump
<1> HIDE DEF w
<1>5. /\ Effect(w) = [do |-> line.op, with |-> OfNumber(a), to |-> NoName]
      /\ line.op # "JGZ" => Disassembled(w) = Line(NoName, line.op, OfNumber(a), NoOperand)
  <2>1. a \in 0 .. 15 /\ k \in 0 .. 7
    BY <1>1, <1>3
  <2>2. line.op \in {"JMP", "JEZ", "JLZ", "JGZ"} /\ k = JumpCode(line.op)
    OBVIOUS
  <2> HIDE DEF k
  <2> QED BY <1>4, <2>1, <2>2, JumpEffect
<1>6. Meaning(line) = [do |-> line.op, to |-> NoName, with |-> OfNumber(a)]
    BY <1>1 DEF Meaning, Jumps, P
<1>7. line.op # "JGZ" => Disassembled(w).op = line.op /\ Disassembled(w).src.number = a
    BY <1>5 DEF Line, OfNumber
<1> QED BY <1>1, <1>5, <1>6, <1>7 DEF SameAsText, Jumps, w, P

LEMMA LineIsMeant ==
    ASSUME NEW line, Assemblable(line), Plain(line),
           lines \in Seq(TextLines), Len(lines) <= 15
    PROVE  SameAsText(line, Linked(lines, line))
<1>1. line.op \in Opcodes
    BY AssemblableLine
<1>2. CASE line.op \in {"NOP", "SWP", "SAV", "NEG"}
    BY <1>2, BareIsMeant
<1>3. CASE line.op \in Jumps
  <2>1. line.op \in {"JMP", "JEZ", "JLZ", "JGZ"} /\ Cardinality(Positions(lines, line.src.name)) = 1
    BY <1>3 DEF Plain, Jumps
  <2> QED BY <2>1, JumpIsMeant
<1>4. CASE line.op \in {"ADD", "SUB", "JRO", "MOV"}
  <2>1. CASE line.src.kind = "register"
    BY <1>4, <2>1, RegisterIsMeant
  <2>2. CASE line.src.kind = "number"
    <3>1. line.op # "JRO" /\ (line.op = "MOV" => line.src.number >= 0)
      <4>1. line.src.number \in Int
        BY AssemblableLine, OperandKinds
      <4> QED BY <2>2, <4>1 DEF Plain
    <3> QED BY <1>4, <2>2, <3>1, NumberIsMeant
  <2> QED BY <1>4, <2>1, <2>2, AssemblableLine
<1> QED BY <1>1, <1>2, <1>3, <1>4 DEF Opcodes, Jumps

-----------------------------------------------------------------------------
(* What is assembled has at most fifteen words. *)

LEMMA ProgramFits ==
    ASSUME NEW text \in Seq(TextLines), ~Rejected(text)
    PROVE  /\ Len(Assembled(text)) \in 0 .. Len(text)
           /\ DOMAIN Instructions(text) = 1 .. Len(Assembled(text))
           /\ \A i \in 1 .. Len(Assembled(text)) :
                 /\ Assembled(text)[i] = Linked(text, Instructions(text)[i])
                 /\ Assemblable(Instructions(text)[i])
                 /\ Instructions(text)[i] \in TextLines
           /\ Assembled(text) \in Seq(Word16)
<1> DEFINE C == Cardinality(InstructionLines(text))
           ins == Instructions(text)
<1>1. C \in 0 .. Len(text) /\ Len(text) \in Nat
    BY LinesFinite
<1>2. DOMAIN ins = 1 .. C
    BY DEF Instructions
<1>3. Assembled(text) = [i \in 1 .. C |-> Linked(text, ins[i])]
    BY <1>2 DEF Assembled
<1> HIDE DEF C, ins
<1>4. ASSUME NEW i \in 1 .. C PROVE ins[i] \in TextLines /\ Assemblable(ins[i])
  <2>1. PICK n \in DOMAIN text : text[n].op # NoOpcode /\ ins[i] = text[n]
    BY <1>2, InstructionIsALine DEF ins
  <2>2. text[n] \in TextLines /\ ~Unreadable(text[n])
    BY <2>1 DEF Rejected
  <2> QED BY <2>1, <2>2 DEF Assemblable
<1>5. \A i \in 1 .. C : Linked(text, ins[i]) \in Word16
    BY <1>4, WordsFit
<1>6. Assembled(text) \in Seq(Word16) /\ Len(Assembled(text)) = C
    BY <1>1, <1>3, <1>5
<1> QED BY <1>1, <1>2, <1>3, <1>4, <1>6 DEF ins

LEMMA AddressRange == \A a : a \in Addresses <=> a \in Int /\ 0 <= a /\ a <= 15
BY DEF Addresses

LEMMA ProgramShort ==
    ASSUME TextInv
    PROVE  /\ program \in Seq(Word16) /\ Len(program) \in Nat /\ Len(program) <= 15
           /\ buffer \in Seq(TextLines) /\ Len(buffer) \in Nat /\ Len(buffer) <= 15
<1>1. buffer \in Seq(TextLines) /\ Len(buffer) \in Nat /\ Len(buffer) <= 15
  <2>1. buffer \in Seq(TextLines) /\ Len(buffer) < ASM_SIZE
    BY DEF TextInv
  <2>2. ASM_SIZE \in Int /\ ASM_SIZE <= 16
    BY HostAssumption DEF TableSize
  <2> QED BY <2>1, <2>2
<1>2. program \in Seq(Word16) /\ Len(program) <= 15
  <2>1. CASE NotAssembled
    <3>1. program = <<>>
        BY <2>1 DEF TextInv
    <3> QED BY <3>1
  <2>2. CASE ~NotAssembled
    <3>1. ~Rejected(buffer) /\ program = Assembled(buffer)
        BY <2>2 DEF TextInv
    <3>2. program \in Seq(Word16) /\ Len(program) \in 0 .. Len(buffer)
        BY <1>1, <3>1, ProgramFits
    <3> QED BY <1>1, <3>2
  <2> QED BY <2>1, <2>2
<1> QED BY <1>1, <1>2

(* What the node takes for the address of the last instruction.            *)
LastAddress == IF writer = "main" THEN (Len(program) + 15) % 16 ELSE Len(program)

LEMMA LengthFits ==
    ASSUME TextInv
    PROVE  Length \in Word16 /\ Bits(Length, 3, 0) = LastAddress
<1>1. Len(program) \in Nat /\ Len(program) <= 15
    BY ProgramShort
<1>2. CASE writer = "main"
  <2>1. Length = (Len(program) - 1) % Halfwords
    BY <1>2 DEF Length, Halfword
  <2>2. Halfwords \in Nat \ {0} /\ Halfwords <= 65536 /\ Halfwords >= 65536
    BY DEF Halfwords
  <2>3. Length \in Word16
    BY <1>1, <2>1, <2>2 DEF Word16
  <2>4. Length = IF Len(program) = 0 THEN Halfwords - 1 ELSE Len(program) - 1
    BY <1>1, <2>1, <2>2
  <2>5. Length % 16 = (Len(program) + 15) % 16
    <3>1. CASE Len(program) = 0
      <4>1. Length = 65535
        BY <2>2, <2>4, <3>1
      <4>2. 65535 % 16 = (0 + 15) % 16
        OBVIOUS
      <4> QED BY <3>1, <4>1, <4>2
    <3>2. CASE Len(program) # 0
      <4> DEFINE n == Len(program)
      <4>1. Length = n - 1 /\ n \in Nat /\ n >= 1 /\ n <= 15
        BY <1>1, <2>4, <3>2
      <4> HIDE DEF n
      <4>2. (n - 1) % 16 = n - 1 /\ (n + 15) % 16 = n - 1
        BY <4>1
      <4> QED BY <4>1, <4>2 DEF n
    <3> QED BY <3>1, <3>2
  <2>6. Bits(Length, 3, 0) = Length % 16
    BY <2>3, Fields
  <2> QED BY <1>2, <2>3, <2>5, <2>6 DEF LastAddress
<1>3. CASE writer # "main"
  <2>1. Length = Len(program) % 16
    BY <1>3 DEF Length
  <2>2. Length = Len(program)
    BY <1>1, <2>1
  <2>3. Length \in Word16
    BY <1>1, <2>2, WordRange
  <2>4. Bits(Length, 3, 0) = Length % 16
    BY <2>3, Fields
  <2> QED BY <1>1, <1>3, <2>2, <2>3, <2>4 DEF LastAddress
<1> QED BY <1>2, <1>3

LEMMA MemoryWords ==
    ASSUME TextInv, MemoryInv
    PROVE  /\ memory \in [Addresses -> Word16]
           /\ last_instruction_address = IF NotWritten THEN 0 ELSE LastAddress
           /\ last_instruction_address \in Addresses
<1>0. 0 \in Word16 /\ 0 \in Addresses
    BY WordRange, AddressRange
<1>1. /\ program \in Seq(Word16) /\ Len(program) \in Nat /\ Len(program) <= 15
      /\ Length \in Word16 /\ Bits(Length, 3, 0) = LastAddress
    BY ProgramShort, LengthFits
<1>2. written \in 0 .. Len(program) /\ memory = [a \in Addresses |-> Stored(a)]
    BY DEF MemoryInv
<1>3. ASSUME NEW a \in Addresses PROVE Stored(a) \in Word16
  <2>1. CASE a = 0
    BY <1>0, <1>1, <2>1 DEF Stored
  <2>2. CASE a # 0 /\ a <= written
    <3>1. a \in 1 .. Len(program)
        BY <1>1, <1>2, <2>2, AddressRange
    <3>2. program[a] \in Word16
        BY <1>1, <3>1
    <3> QED BY <2>2, <3>2 DEF Stored
  <2>3. CASE a # 0 /\ ~(a <= written)
    BY <1>0, <2>3 DEF Stored
  <2> QED BY <2>1, <2>2, <2>3
<1>4. memory[0] = IF NotWritten THEN 0 ELSE Length
    BY <1>0, <1>2 DEF Stored
<1>5. Bits(0, 3, 0) = 0
    BY <1>0, Fields
<1>6. last_instruction_address = IF NotWritten THEN 0 ELSE LastAddress
    BY <1>1, <1>4, <1>5 DEF last_instruction_address
<1>7. LastAddress \in Addresses
    BY <1>1, AddressRange DEF LastAddress
<1> QED BY <1>0, <1>2, <1>3, <1>6, <1>7

-----------------------------------------------------------------------------
(* The invariant is inductive.  First main. *)

LEMMA ScriptHead ==
    ASSUME TextInv, script # <<>>
    PROVE  Head(script) \in TextLines /\ Tail(script) \in Seq(TextLines)
BY DEF TextInv

LEMMA ReadText ==
    ASSUME TextInv, Read
    PROVE  TextInv'
<1>1. /\ script \in Seq(TextLines) /\ script # <<>> /\ script' = Tail(script) /\ writer' = writer
      /\ buffer \in Seq(TextLines) /\ Len(buffer) \in Nat /\ Len(buffer) < ASM_SIZE
      /\ ASM_SIZE \in Nat
    BY HostAssumption DEF TextInv, Read, TableSize
<1>2. Head(script) \in TextLines /\ script' \in Seq(TextLines)
    BY <1>1, ScriptHead
<1>3. phase = "reading" /\ lines = <<>> /\ program = <<>>
    BY DEF TextInv, Read, Assemble, AddLine, NotAssembled
<1>4. CASE AddLine(Head(script))
  <2>1. lines' = <<>> /\ program' = <<>> /\ phase' = "reading"
    BY <1>3, <1>4 DEF AddLine
  <2>2. buffer' \in Seq(TextLines) /\ Len(buffer') < ASM_SIZE
    <3>1. CASE Len(buffer) + 1 >= ASM_SIZE
      <4>1. buffer' = <<>>
        BY <1>4, <3>1 DEF AddLine
      <4> QED BY <1>1, <4>1
    <3>2. CASE ~(Len(buffer) + 1 >= ASM_SIZE)
      <4>1. buffer' = Append(buffer, Head(script))
        BY <1>4, <3>2 DEF AddLine
      <4> QED BY <1>1, <1>2, <3>2, <4>1
    <3> QED BY <3>1, <3>2
  <2> QED BY <1>1, <1>2, <2>1, <2>2 DEF TextInv, NotAssembled
<1>5. CASE Assemble
  <2>1. CASE Rejected(buffer)
    <3>1. /\ buffer' = <<Chopped(Head(buffer))>>
          /\ lines' = <<>> /\ program' = <<>> /\ phase' = "reading"
        BY <1>3, <1>5, <2>1 DEF Assemble
    <3>2. buffer # <<>>
        BY <2>1 DEF Rejected, Labelled
    <3>3. Head(buffer) \in TextLines /\ Len(buffer) >= 1
        BY <1>1, <3>2
    <3> DEFINE line == Chopped(Head(buffer))
    <3>4. line \in TextLines
        BY <3>3 DEF Chopped, TextLines, Line, Operands
    <3> HIDE DEF line
    <3>5. buffer' \in Seq(TextLines) /\ Len(buffer') < ASM_SIZE
        BY <1>1, <3>1, <3>3, <3>4 DEF line
    <3> QED BY <1>1, <1>2, <3>1, <3>5 DEF TextInv, NotAssembled
  <2>2. CASE ~Rejected(buffer)
    <3>1. /\ buffer' = buffer
          /\ lines' = buffer /\ program' = Assembled(buffer) /\ phase' = "assembled"
        BY <1>5, <2>2 DEF Assemble
    <3>2. ~Rejected(lines') /\ program' = Assembled(lines')
        BY <2>2, <3>1
    <3> QED BY <1>1, <1>2, <1>3, <3>1, <3>2 DEF TextInv, NotAssembled
  <2> QED BY <2>1, <2>2
<1> QED BY <1>4, <1>5 DEF Read

LEMMA TextHolds ==
    ASSUME TextInv, [Next]_vars
    PROVE  TextInv'
<1>1. CASE Read
    BY <1>1, ReadText
<1>2. CASE /\ UNCHANGED textVars
           /\ IF NotAssembled THEN phase' \in {phase, "no_program"}
                              ELSE phase' \in {"assembled", "writing", "refused", "started"}
  <2>1. phase' \in {"reading", "no_program", "assembled", "writing", "refused", "started"}
    BY <1>2 DEF TextInv
  <2>2. NotAssembled' = NotAssembled
    BY <1>2 DEF NotAssembled
  <2> QED BY <1>2, <2>1, <2>2 DEF TextInv, textVars
<1>3. CASE Configure
    BY <1>2, <1>3 DEF Configure, NotAssembled
<1>4. CASE WriteWord
    BY <1>2, <1>4 DEF WriteWord, NotAssembled
<1>5. CASE Start
    BY <1>2, <1>5 DEF Start, NotAssembled
<1>6. CASE NodeEdge \/ UNCHANGED vars
  <2>1. UNCHANGED textVars /\ phase' = phase
    BY <1>6 DEF NodeEdge, hostVars, vars
  <2> QED BY <1>2, <2>1 DEF TextInv, NotAssembled
<1>7. CASE EndOfInput
    BY <1>2, <1>7 DEF EndOfInput, NotAssembled
<1> QED BY <1>1, <1>3, <1>4, <1>5, <1>6, <1>7 DEF Next

LEMMA NothingStored ==
    ASSUME NotWritten, written = 0
    PROVE  \A a \in Addresses : Stored(a) = 0
<1>1. \A a \in Addresses : a <= 0 => a = 0
    BY AddressRange
<1> QED BY <1>1 DEF Stored

LEMMA ReadMemory ==
    ASSUME TextInv, MemoryInv, Read
    PROVE  MemoryInv' /\ NotWritten /\ NotWritten'
<1>1. phase = "reading" /\ program = <<>> /\ written = 0
    BY DEF TextInv, MemoryInv, NotAssembled, NotWritten, Read, Assemble, AddLine
<1>2. memory' = memory /\ written' = written /\ phase' \in {"reading", "assembled"}
    BY <1>1 DEF Read, Assemble, AddLine, execVars
<1>3. Len(program') \in Nat
  <2>1. CASE phase' = "assembled"
    <3>1. program' = Assembled(buffer) /\ ~Rejected(buffer) /\ buffer \in Seq(TextLines)
        BY <1>1, <2>1 DEF Read, Assemble, AddLine, TextInv
    <3>2. Assembled(buffer) \in Seq(Word16)
        BY <3>1, ProgramFits
    <3> QED BY <3>1, <3>2
  <2>2. CASE phase' # "assembled"
    <3>1. program' = program
        BY <2>2 DEF Read, Assemble, AddLine
    <3> QED BY <1>1, <3>1
  <2> QED BY <2>1, <2>2
<1>4. NotWritten /\ NotWritten'
    BY <1>1, <1>2 DEF NotWritten, NotAssembled
<1>5. \A a \in Addresses : Stored(a) = 0
    BY <1>1, <1>4, NothingStored
<1>6. \A a \in Addresses : Stored(a)' = 0
  <2>1. \A a \in Addresses : a <= 0 => a = 0
    BY AddressRange
  <2> QED BY <1>1, <1>2, <1>4, <2>1 DEF Stored
<1>7. memory' = [a \in Addresses |-> Stored(a)']
    BY <1>2, <1>5, <1>6 DEF MemoryInv
<1> QED BY <1>1, <1>2, <1>3, <1>4, <1>7 DEF MemoryInv

LEMMA ConfigureMemory ==
    ASSUME TextInv, MemoryInv, Configure
    PROVE  /\ MemoryInv' /\ NotWritten /\ ~NotWritten'
           /\ \A a \in Addresses : memory'[a] = IF a = 0 THEN Length ELSE memory[a]
<1>1. /\ phase = "assembled" /\ written = 0 /\ NotWritten
      /\ phase' \in {"writing", "refused"} /\ ~NotWritten'
      /\ UNCHANGED <<written, program, writer>>
      /\ memory' = [memory EXCEPT ![0] = Length]
    BY DEF Configure, MemoryInv, NotWritten, NotAssembled, MemoryWrite, textVars
<1>2. Len(program) \in Nat /\ 0 \in Addresses
    BY ProgramShort, AddressRange
<1>3. memory = [a \in Addresses |-> 0]
  <2>1. memory = [a \in Addresses |-> Stored(a)]
    BY DEF MemoryInv
  <2> QED BY <1>1, <2>1, NothingStored
<1>4. \A a \in Addresses : Stored(a)' = IF a = 0 THEN Length ELSE 0
  <2>1. Length' = Length
    BY <1>1 DEF Length
  <2>2. \A a \in Addresses : a <= 0 => a = 0
    BY AddressRange
  <2> QED BY <1>1, <2>1, <2>2 DEF Stored
<1>5. \A a \in Addresses : memory'[a] = IF a = 0 THEN Length ELSE memory[a]
    BY <1>1, <1>2, <1>3
<1>6. memory' = [a \in Addresses |-> IF a = 0 THEN Length ELSE 0]
  <2> HIDE DEF Length
  <2> QED BY <1>1, <1>2, <1>3
<1>7. memory' = [a \in Addresses |-> Stored(a)']
    BY <1>4, <1>6
<1> QED BY <1>1, <1>2, <1>5, <1>7 DEF MemoryInv

LEMMA WriteMemory ==
    ASSUME TextInv, MemoryInv, WriteWord
    PROVE  /\ MemoryInv' /\ ~NotWritten /\ ~NotWritten'
           /\ written + 1 \in Addresses /\ memory[written + 1] = 0
           /\ memory' = [memory EXCEPT ![written + 1] = program[written + 1]]
<1>1. /\ phase = "writing" /\ written < Len(program) /\ ~NotWritten /\ ~NotWritten'
      /\ UNCHANGED <<phase, program, writer>> /\ written' = written + 1
      /\ memory' = [memory EXCEPT ![written + 1] = program[written + 1]]
    BY DEF WriteWord, NotWritten, NotAssembled, MemoryWrite, textVars
<1>2. Len(program) \in Nat /\ Len(program) <= 15 /\ written \in Nat
    BY ProgramShort DEF MemoryInv
<1>3. written + 1 \in Addresses /\ written + 1 # 0 /\ ~(written + 1 <= written)
    BY <1>1, <1>2, AddressRange
<1>4. memory = [a \in Addresses |-> Stored(a)]
    BY DEF MemoryInv
<1>5. memory[written + 1] = 0
    BY <1>3, <1>4 DEF Stored
<1>6. \A a \in Addresses : Stored(a)' = IF a = written + 1 THEN program[written + 1] ELSE Stored(a)
  <2>1. Length' = Length
    BY <1>1 DEF Length
  <2>2. \A a \in Addresses : a <= written + 1 <=> a <= written \/ a = written + 1
    BY <1>2, AddressRange
  <2> QED BY <1>1, <1>3, <2>1, <2>2 DEF Stored
<1>7. memory' = [a \in Addresses |-> Stored(a)']
    BY <1>1, <1>3, <1>4, <1>6
<1>8. written' \in 0 .. Len(program)
    BY <1>1, <1>2
<1> QED BY <1>1, <1>3, <1>5, <1>7, <1>8 DEF MemoryInv

LEMMA MemoryHolds ==
    ASSUME TextInv, MemoryInv, [Next]_vars
    PROVE  MemoryInv'
<1>1. CASE Read
    BY <1>1, ReadMemory
<1>2. CASE Configure
    BY <1>2, ConfigureMemory
<1>3. CASE WriteWord
    BY <1>3, WriteMemory
<1>4. CASE /\ UNCHANGED <<memory, written, program, writer>>
           /\ \/ phase' = phase
              \/ phase = "writing" /\ written = Len(program) /\ phase' = "started"
              \/ phase = "reading" /\ phase' = "no_program"
  <2>1. NotWritten' = NotWritten /\ Length' = Length
    BY <1>4 DEF NotWritten, NotAssembled, Length
  <2>2. \A a : Stored(a)' = Stored(a)
    BY <1>4, <2>1 DEF Stored
  <2>3. memory' = [a \in Addresses |-> Stored(a)']
    BY <1>4, <2>2 DEF MemoryInv
  <2> QED BY <1>4, <2>1, <2>3 DEF MemoryInv
<1>5. CASE Start
    BY <1>4, <1>5 DEF Start, textVars, execVars
<1>6. CASE NodeEdge \/ UNCHANGED vars
    BY <1>4, <1>6 DEF NodeEdge, vars, hostVars, textVars, execVars
<1>7. CASE EndOfInput
    BY <1>4, <1>7 DEF EndOfInput, textVars, execVars
<1> QED BY <1>1, <1>2, <1>3, <1>5, <1>6, <1>7 DEF Next

-----------------------------------------------------------------------------
(* Then the node. *)

LEMMA WrapFits == \A v \in Int : Wrap11(v) \in Word11
BY DEF Wrap11, Word11

LEMMA CurrentWord ==
    ASSUME TextInv, MemoryInv, CounterInv
    PROVE  /\ current_instruction \in Word16
           /\ node_pc \in Addresses /\ last_instruction_address \in Addresses
           /\ node_pc < 15 => /\ (node_pc + 1) % 16 = node_pc + 1
                              /\ node_pc + 1 \in Addresses
<1>1. last_instruction_address \in Nat /\ last_instruction_address <= 15
    BY MemoryWords, AddressRange
<1>2. node_pc \in Nat /\ node_pc <= 15
  <2> HIDE DEF last_instruction_address
  <2> QED BY <1>1 DEF CounterInv
<1>3. (node_pc + 1) % 16 \in Addresses
    BY <1>2, AddressRange
<1>4. memory \in [Addresses -> Word16]
    BY MemoryWords
<1>5. current_instruction \in Word16
    BY <1>3, <1>4 DEF current_instruction
<1>6. node_pc < 15 => (node_pc + 1) % 16 = node_pc + 1
    BY <1>2
<1> HIDE DEF current_instruction, last_instruction_address
<1> QED BY <1>1, <1>2, <1>3, <1>5, <1>6, AddressRange

(* With silent neighbours nothing is ever met. *)
LEMMA QuietEdge ==
    ASSUME NodeEdge
    PROVE  /\ node_state' = NextPhase(node_state)
           /\ UNCHANGED <<memory, phase, written, textVars>>
           /\ fetched' = IF node_state = "RUN" THEN current_instruction ELSE fetched
           /\ \/ Decode
              \/ node_state # "RUN" /\ Try(Quiet)
              \/ /\ node_state = "FINISH"
                 /\ FinishOperand \/ FinishNoRead(Quiet) \/ FinishWrite(Quiet) \/ FinishInstruction
<1>1. \A p \in Ports : Quiet[p] = FALSE
    BY DEF Quiet
<1>2. ReadPort(node_state) \in Ports /\ WritePort(node_state) \in Ports /\ "DOWN" \in Ports
    BY DEF ReadPort, WritePort, Ports
<1>3. ~ReadMet(Quiet) /\ ~WriteMet(Quiet) /\ ~Quiet["DOWN"]
    BY <1>1, <1>2 DEF ReadMet, WriteMet
<1>4. Processor(Quiet, [p \in Ports |-> 0])
    BY DEF NodeEdge, ExecEdge
<1> QED BY <1>3, <1>4 DEF NodeEdge, hostVars, Processor, ReadDone, WriteDone, FinishRead, Finish, Try, Conveying

LEMMA ZeroWord ==
    /\ 0 \in Word16
    /\ Group(0) = "alu_immediate" /\ AluImmediate(0) = 0
    /\ Operation(0) = "ADD"
<1>1. 0 \in Word16
    BY WordRange
<1>2. Bits(0, 15, 14) = 0 /\ Bits(0, 11, 11) = 0 /\ Bits(0, 9, 0) = 0
      /\ Bits(0, 15, 3) = 0 /\ Bits(0, 15, 9) = 0 /\ Bits(0, 15, 12) = 0 /\ Bits(0, 10, 10) = 0
    BY <1>1, Fields
<1> QED BY <1>1, <1>2 DEF Group, AluImmediate, Operation

LEMMA OperandFits ==
    ASSUME NEW w \in Word16
    PROVE  /\ AluImmediate(w) \in Word11 /\ MovImmediate(w) \in Word11
           /\ Target(w) \in Nat
           /\ Source(w) \in Registers /\ Destination(w) \in Registers
<1>1. /\ AluImmediate(w) = w % 1024 /\ MovImmediate(w) = Wrap11(w % 2048)
      /\ Target(w) = w % 16
      /\ Source(w) = Register(w % 8) /\ Destination(w) = Register((w \div 2048) % 8)
    BY Fields DEF AluImmediate, MovImmediate, Target, Source, Destination
<1>2. w \in Nat
    BY WordRange
<1>3. w % 1024 \in Word11
    BY <1>2 DEF Word11
<1>4. w % 2048 \in Int /\ w % 16 \in Nat /\ w % 8 \in Nat /\ (w \div 2048) % 8 \in Nat
    BY <1>2
<1> QED BY <1>1, <1>3, <1>4, WrapFits, RegisterNamed

LEMMA CounterMoves ==
    ASSUME NEW v \in Int, node_pc \in Nat, last_instruction_address \in Nat,
           node_pc <= last_instruction_address, last_instruction_address <= 15
    PROVE  /\ IncrementPC \in 0 .. last_instruction_address
           /\ OffsetPC(v) \in 0 .. last_instruction_address
           /\ v >= 0 => SetPC(v) \in 0 .. last_instruction_address
<1> HIDE DEF last_instruction_address
<1>1. IncrementPC \in 0 .. last_instruction_address
    BY DEF IncrementPC
<1>2. OffsetPC(v) \in 0 .. last_instruction_address
    BY DEF OffsetPC
<1>3. v >= 0 => SetPC(v) \in 0 .. last_instruction_address
    BY DEF SetPC
<1> QED BY <1>1, <1>2, <1>3

LEMMA ExecuteFits ==
    ASSUME TextInv, MemoryInv, RegisterInv, CounterInv,
           Execute(node_io_value, node_acc, node_pc)
    PROVE  /\ node_acc' \in Word11 /\ node_bak' \in Word11
           /\ node_pc' \in 0 .. last_instruction_address
<1> DEFINE w == current_instruction
           op == Operation(w)
<1>1. w \in Word16 /\ node_pc \in Addresses /\ last_instruction_address \in Addresses
    BY CurrentWord
<1>2. node_acc \in Int /\ node_io_value \in Int /\ node_acc \in Word11 /\ node_bak \in Word11
    BY DEF RegisterInv, Word11
<1>3. Result(op, node_io_value, node_acc) \in Word11
  <2>1. /\ Wrap11(node_acc + node_io_value) \in Word11
        /\ Wrap11(node_acc - node_io_value) \in Word11 /\ Wrap11(-node_acc) \in Word11
    <3>1. /\ node_acc + node_io_value \in Int /\ node_acc - node_io_value \in Int
          /\ -node_acc \in Int
        BY <1>2
    <3> QED BY <3>1, WrapFits
  <2> QED BY <1>2, <2>1 DEF Result
<1>4. node_acc' \in Word11
    BY <1>3 DEF Execute
<1>5. node_bak' \in Word11
    BY <1>2 DEF Execute
<1>6. node_pc' \in {OffsetPC(node_io_value), node_pc, SetPC(Target(w)), IncrementPC}
    BY DEF Execute
<1>7. /\ node_pc \in 0 .. last_instruction_address
      /\ IncrementPC \in 0 .. last_instruction_address
      /\ OffsetPC(node_io_value) \in 0 .. last_instruction_address
      /\ SetPC(Target(w)) \in 0 .. last_instruction_address
  <2>1. /\ node_pc \in Nat /\ last_instruction_address \in Nat
        /\ node_pc <= last_instruction_address /\ last_instruction_address <= 15
    BY <1>1, AddressRange DEF CounterInv
  <2>2. Target(w) \in Int /\ Target(w) >= 0
    BY <1>1, OperandFits
  <2> QED BY <1>2, <2>1, <2>2, CounterMoves DEF CounterInv
<1> QED BY <1>4, <1>5, <1>6, <1>7

(* Phase RUN takes the operand of the word it sees, of a zero a zero. *)
LEMMA DecodeKeeps ==
    ASSUME TextInv, MemoryInv, RegisterInv, CounterInv, LapInv, NodeEdge, Decode
    PROVE  RegisterInv' /\ LapInv' /\ node_pc' = node_pc
<1> DEFINE w == current_instruction
<1>1. /\ w \in Word16 /\ AluImmediate(w) \in Word11 /\ MovImmediate(w) \in Word11
      /\ Source(w) \in Registers /\ Destination(w) \in Registers
    BY CurrentWord, OperandFits
<1>2. /\ node_state = "RUN" /\ node_state' = "LEFT" /\ fetched' = w
      /\ UNCHANGED <<memory, node_pc, node_acc, node_bak>>
    BY QuietEdge DEF Decode, NextPhase, cpuVars
<1>3. current_instruction' = w
    BY <1>2 DEF current_instruction
<1>4. "NIL" \in Registers /\ "LAST" \in Registers /\ 0 \in Word11
    BY DEF Registers, Word11
<1>5. AluOperand(w) \in Word11
    BY <1>1, <1>4 DEF AluOperand, RegisterInv
<1>6. w = 0 => Group(w) = "alu_immediate" /\ AluOperand(w) = 0
    BY ZeroWord DEF AluOperand
<1> DEFINE same == node_io_read \/ node_io_write \/ Group(w) = "no_operand"
<1>7. CASE same
  <2>1. UNCHANGED ioVars
    BY <1>7 DEF Decode
  <2>2. /\ UNCHANGED <<node_io_value, node_io_read, node_io_write, node_src_reg, node_dst_reg, node_last>>
        /\ w = 0 => FALSE
        /\ node_io_read \in BOOLEAN /\ node_io_write \in BOOLEAN
    BY <1>6, <1>7, <2>1 DEF ioVars, LapInv, RegisterInv
  <2>3. RegisterInv'
    BY <1>1, <1>2, <2>2 DEF RegisterInv, Phases
  <2>4. LapInv'
    BY <1>2, <1>3, <2>2 DEF LapInv
  <2> QED BY <1>2, <2>3, <2>4
<1>8. CASE ~same /\ Group(w) \in {"alu_register", "alu_immediate"}
  <2>1. DecodeAlu(w) /\ node_last' = node_last
    BY <1>8 DEF Decode
  <2>2. /\ node_io_write' = FALSE /\ node_io_read' \in BOOLEAN
        /\ node_io_value' \in Word11 /\ node_src_reg' \in Registers /\ node_dst_reg' = node_dst_reg
    <3>1. node_io_write' = FALSE /\ node_dst_reg' = node_dst_reg
        BY <2>1 DEF DecodeAlu
    <3>2. node_io_read' \in BOOLEAN /\ node_io_value' \in Word11 /\ node_src_reg' \in Registers
        BY <1>1, <1>4, <1>5, <2>1 DEF DecodeAlu, RegisterInv
    <3> QED BY <3>1, <3>2
  <2>3. w = 0 => node_io_read' = FALSE /\ node_io_value' = 0
    BY <1>6, <2>1 DEF DecodeAlu
  <2>4. RegisterInv'
    BY <1>1, <1>2, <2>1, <2>2 DEF RegisterInv, Phases
  <2>5. LapInv'
    BY <1>2, <1>3, <2>2, <2>3 DEF LapInv
  <2> QED BY <1>2, <2>4, <2>5
<1>9. CASE ~same /\ Group(w) \notin {"alu_register", "alu_immediate"}
  <2>1. DecodeMov(w) /\ node_last' = node_last /\ w # 0
    BY <1>6, <1>9 DEF Decode
  <2>2. /\ node_io_write' \in BOOLEAN /\ node_io_read' \in BOOLEAN
        /\ node_io_value' \in Word11 /\ node_src_reg' \in Registers /\ node_dst_reg' \in Registers
    BY <1>1, <1>4, <2>1 DEF DecodeMov, RegisterInv
  <2>3. RegisterInv'
    BY <1>1, <1>2, <2>1, <2>2 DEF RegisterInv, Phases
  <2>4. LapInv'
    BY <1>2, <1>3, <2>1 DEF LapInv
  <2> QED BY <1>2, <2>3, <2>4
<1> QED BY <1>7, <1>8, <1>9

LEMMA TryKeeps ==
    ASSUME TextInv, MemoryInv, RegisterInv, CounterInv, LapInv, NodeEdge,
           node_state # "RUN", Try(Quiet)
    PROVE  RegisterInv' /\ LapInv' /\ node_pc' = node_pc
<1>1. /\ UNCHANGED <<memory, node_pc, node_acc, node_bak, fetched>>
      /\ UNCHANGED <<node_io_value, node_io_read, node_io_write, node_src_reg, node_dst_reg, node_last>>
    BY QuietEdge DEF Try, cpuVars, ioVars
<1>2. node_state' \in Phases
    BY QuietEdge DEF NextPhase, Phases
<1>3. current_instruction' = current_instruction
    BY <1>1 DEF current_instruction
<1>4. RegisterInv'
    BY <1>1, <1>2 DEF RegisterInv
<1> QED BY <1>1, <1>3, <1>4 DEF LapInv

(* Phase FINISH passes an instruction, or it leaves it under way. *)
LEMMA FinishKeeps ==
    ASSUME TextInv, MemoryInv, RegisterInv, CounterInv, LapInv, NodeEdge, node_state = "FINISH",
           FinishOperand \/ FinishNoRead(Quiet) \/ FinishWrite(Quiet) \/ FinishInstruction
    PROVE  RegisterInv' /\ LapInv' /\ node_pc' \in 0 .. last_instruction_address
<1>1. node_state' = "RUN" /\ "RUN" \in Phases /\ fetched' = fetched /\ memory' = memory
    BY QuietEdge DEF NextPhase, Phases
<1>2. /\ node_pc \in 0 .. last_instruction_address
      /\ IncrementPC \in 0 .. last_instruction_address
  <2>1. node_pc \in Addresses /\ last_instruction_address \in Addresses
    BY CurrentWord
  <2>2. /\ node_pc \in Nat /\ last_instruction_address \in Nat
        /\ node_pc <= last_instruction_address /\ last_instruction_address <= 15
    BY <2>1, AddressRange DEF CounterInv
  <2>3. 0 \in Int
    OBVIOUS
  <2> QED BY <2>2, <2>3, CounterMoves DEF CounterInv
<1>3. node_pc' = node_pc => current_instruction' = current_instruction
    BY <1>1 DEF current_instruction
<1> DEFINE Kept == /\ node_acc' \in Word11 /\ node_bak' \in Word11
                   /\ node_pc' \in 0 .. last_instruction_address
                   /\ UNCHANGED <<node_io_value, node_src_reg, node_dst_reg, node_last>>
                   /\ node_io_read' \in BOOLEAN /\ node_io_write' \in BOOLEAN
                   /\ node_io_read' \/ node_io_write' =>
                          node_pc' = node_pc /\ (node_io_read \/ node_io_write)
<1>4. ASSUME Kept PROVE RegisterInv' /\ LapInv' /\ node_pc' \in 0 .. last_instruction_address
  <2>1. RegisterInv'
    BY <1>1, <1>4 DEF RegisterInv
  <2>2. LapInv'
    BY <1>1, <1>3, <1>4 DEF LapInv
  <2> QED BY <1>4, <2>1, <2>2
<1>5. ASSUME FinishOperand PROVE Kept
  <2>1. /\ node_pc' \in {node_pc, IncrementPC} /\ node_acc' \in {node_acc, node_io_value}
        /\ node_io_read' = FALSE /\ UNCHANGED <<node_bak, node_io_value, node_src_reg, node_dst_reg, node_last>>
        /\ node_io_write' = FALSE \/ (node_io_write' = node_io_write /\ node_pc' = node_pc)
    BY <1>5 DEF FinishOperand
  <2>2. node_acc \in Word11 /\ node_bak \in Word11 /\ node_io_value \in Word11 /\ node_io_write \in BOOLEAN
    BY DEF RegisterInv
  <2>3. node_acc' \in Word11 /\ node_bak' \in Word11 /\ node_pc' \in 0 .. last_instruction_address
    BY <1>2, <2>1, <2>2, Zenon
  <2>4. /\ node_io_read' \in BOOLEAN /\ node_io_write' \in BOOLEAN
        /\ node_io_read' \/ node_io_write' => node_pc' = node_pc /\ (node_io_read \/ node_io_write)
    <3>1. CASE node_io_write' = FALSE
        BY <2>1, <3>1
    <3>2. CASE node_io_write' = node_io_write /\ node_pc' = node_pc
        BY <2>1, <2>2, <3>2
    <3> QED BY <2>1, <3>1, <3>2
  <2>5. UNCHANGED <<node_io_value, node_src_reg, node_dst_reg, node_last>>
    BY <2>1
  <2> QED BY <2>3, <2>4, <2>5, Zenon
<1>6. ASSUME FinishNoRead(Quiet) PROVE Kept
  <2>1. /\ UNCHANGED <<node_pc, node_acc, node_bak>>
        /\ UNCHANGED <<node_io_value, node_io_read, node_io_write, node_src_reg, node_dst_reg, node_last>>
    BY <1>6 DEF FinishNoRead, cpuVars, ioVars
  <2> QED BY <1>2, <2>1 DEF RegisterInv
<1>7. ASSUME FinishWrite(Quiet) PROVE Kept
  <2>1. ~Quiet["UP"]
    BY DEF Quiet, Ports
  <2>2. /\ node_pc' \in {node_pc, IncrementPC} /\ node_acc' \in {node_acc, node_io_value}
        /\ UNCHANGED <<node_bak, node_io_value, node_io_read, node_src_reg, node_dst_reg, node_last>>
        /\ ~node_io_read
        /\ node_io_write' = FALSE \/ (node_io_write' = node_io_write /\ node_pc' = node_pc)
    BY <1>7, <2>1 DEF FinishWrite, Writing
  <2>3. /\ node_acc \in Word11 /\ node_bak \in Word11 /\ node_io_value \in Word11
        /\ node_io_read \in BOOLEAN /\ node_io_write \in BOOLEAN
    BY DEF RegisterInv
  <2>4. node_acc' \in Word11 /\ node_bak' \in Word11 /\ node_pc' \in 0 .. last_instruction_address
    BY <1>2, <2>2, <2>3, Zenon
  <2>5. /\ node_io_read' \in BOOLEAN /\ node_io_write' \in BOOLEAN
        /\ node_io_read' \/ node_io_write' => node_pc' = node_pc /\ (node_io_read \/ node_io_write)
    <3>1. CASE node_io_write' = FALSE
        BY <2>2, <2>3, <3>1
    <3>2. CASE node_io_write' = node_io_write /\ node_pc' = node_pc
        BY <2>2, <2>3, <3>2
    <3> QED BY <2>2, <3>1, <3>2
  <2>6. UNCHANGED <<node_io_value, node_src_reg, node_dst_reg, node_last>>
    BY <2>2
  <2> QED BY <2>4, <2>5, <2>6, Zenon
<1>8. ASSUME FinishInstruction PROVE Kept
  <2>1. /\ Execute(node_io_value, node_acc, node_pc) /\ ~node_io_read /\ ~node_io_write
        /\ UNCHANGED <<node_io_value, node_io_read, node_io_write, node_src_reg, node_dst_reg, node_last>>
    BY <1>8 DEF FinishInstruction, ioVars, Reading, Writing
  <2>2. node_acc' \in Word11 /\ node_bak' \in Word11 /\ node_pc' \in 0 .. last_instruction_address
    BY <2>1, ExecuteFits
  <2> QED BY <2>1, <2>2 DEF RegisterInv
<1> HIDE DEF Kept
<1> QED BY <1>4, <1>5, <1>6, <1>7, <1>8

LEMMA NodeKeeps ==
    ASSUME HostInv, NodeEdge
    PROVE  RegisterInv' /\ CounterInv' /\ LapInv'
<1>1. TextInv /\ MemoryInv /\ RegisterInv /\ CounterInv /\ LapInv
    BY DEF HostInv
<1>2. RegisterInv' /\ LapInv' /\ (node_pc' = node_pc \/ node_pc' \in 0 .. last_instruction_address)
    BY <1>1, QuietEdge, DecodeKeeps, TryKeeps, FinishKeeps
<1>3. last_instruction_address' = last_instruction_address
    BY QuietEdge DEF last_instruction_address
<1> QED BY <1>1, <1>2, <1>3 DEF CounterInv

(* A store over a zero takes nothing from what is under way. *)
LEMMA StoreKeeps ==
    ASSUME HostInv, NEW a \in Addresses, NEW w,
           memory[a] = 0, memory' = [memory EXCEPT ![a] = w],
           UNCHANGED <<fetched, node_state, cpuVars, ioVars>>
    PROVE  RegisterInv' /\ LapInv'
<1>1. TextInv /\ MemoryInv /\ RegisterInv /\ CounterInv /\ LapInv
    BY DEF HostInv
<1>2. /\ UNCHANGED <<node_pc, node_acc, node_bak, node_state, fetched>>
      /\ UNCHANGED <<node_io_value, node_io_read, node_io_write, node_src_reg, node_dst_reg, node_last>>
    BY DEF cpuVars, ioVars
<1>3. RegisterInv'
    BY <1>1, <1>2 DEF RegisterInv
<1>4. current_instruction = 0 \/ current_instruction' = current_instruction
  <2>1. (node_pc + 1) % 16 \in Addresses
    <3>1. node_pc \in Nat
        BY <1>1, CurrentWord, AddressRange
    <3> QED BY <3>1, AddressRange
  <2>2. memory \in [Addresses -> Word16]
    BY <1>1, MemoryWords
  <2> DEFINE b == (node_pc + 1) % 16
  <2>3. b' = b
    BY <1>2
  <2> HIDE DEF b
  <2>4. b = a \/ memory'[b] = memory[b]
    BY <2>2
  <2>5. current_instruction = memory[b] /\ current_instruction' = memory'[b']
    BY DEF current_instruction, b
  <2> QED BY <2>3, <2>4, <2>5
<1> HIDE DEF current_instruction
<1>5. LapInv'
  <2>1. CASE current_instruction' = current_instruction
    BY <1>1, <1>2, <2>1 DEF LapInv
  <2>2. CASE current_instruction = 0
    <3>1. /\ ~node_io_read /\ ~node_io_write
          /\ node_state # "RUN" => fetched = 0 /\ node_io_value = 0
        BY <1>1, <2>2 DEF LapInv
    <3> QED BY <1>2, <3>1 DEF LapInv
  <2> QED BY <1>4, <2>1, <2>2
<1> QED BY <1>3, <1>5

LEMMA MainKeeps ==
    ASSUME HostInv, UNCHANGED <<memory, fetched, node_state, cpuVars, ioVars>>
    PROVE  RegisterInv' /\ CounterInv' /\ LapInv'
<1>1. /\ UNCHANGED <<memory, node_pc, node_acc, node_bak, node_state, fetched>>
      /\ UNCHANGED <<node_io_value, node_io_read, node_io_write, node_src_reg, node_dst_reg, node_last>>
    BY DEF cpuVars, ioVars
<1>2. RegisterInv'
    BY <1>1 DEF HostInv, RegisterInv
<1>3. last_instruction_address' = last_instruction_address /\ current_instruction' = current_instruction
    BY <1>1 DEF last_instruction_address, current_instruction
<1>4. CounterInv'
    BY <1>1, <1>3 DEF HostInv, CounterInv
<1>5. LapInv'
    BY <1>1, <1>3 DEF HostInv, LapInv
<1> QED BY <1>2, <1>4, <1>5

LEMMA ConfigureKeeps ==
    ASSUME HostInv, Configure
    PROVE  RegisterInv' /\ CounterInv' /\ LapInv'
<1>1. TextInv /\ MemoryInv /\ CounterInv
    BY DEF HostInv
<1>2. /\ memory' = [memory EXCEPT ![0] = Length] /\ 0 \in Addresses
      /\ UNCHANGED <<fetched, node_state, cpuVars, ioVars>> /\ NotWritten
    BY <1>1, ConfigureMemory, AddressRange DEF Configure, MemoryWrite
<1>3. memory[0] = 0
    BY <1>1, <1>2 DEF MemoryInv, Stored
<1>4. RegisterInv' /\ LapInv'
    BY <1>2, <1>3, StoreKeeps
<1>5. node_pc' = 0
  <2>1. last_instruction_address = 0 /\ node_pc \in Int
    BY <1>1, <1>2, MemoryWords, CurrentWord, AddressRange
  <2> HIDE DEF last_instruction_address
  <2>2. node_pc = 0
    BY <1>1, <2>1 DEF CounterInv
  <2> QED BY <1>2, <2>2 DEF cpuVars
<1>6. last_instruction_address' \in Nat
  <2>1. memory \in [Addresses -> Word16]
    BY <1>1, MemoryWords
  <2>2. memory'[0] = Length
    BY <1>2, <2>1
  <2>3. Bits(Length, 3, 0) = LastAddress
    BY <1>1, LengthFits
  <2>4. LastAddress \in Nat
    <3>1. Len(program) \in Nat
        BY <1>1, ProgramShort
    <3> QED BY <3>1 DEF LastAddress
  <2> QED BY <2>2, <2>3, <2>4 DEF last_instruction_address
<1> HIDE DEF last_instruction_address
<1> QED BY <1>4, <1>5, <1>6 DEF CounterInv

LEMMA WriteKeeps ==
    ASSUME HostInv, WriteWord
    PROVE  RegisterInv' /\ CounterInv' /\ LapInv'
<1> DEFINE a == written + 1
<1>1. TextInv /\ MemoryInv /\ CounterInv
    BY DEF HostInv
<1>2. /\ memory' = [memory EXCEPT ![a] = program[a]] /\ a \in Addresses /\ memory[a] = 0
    BY <1>1, WriteMemory
<1>3. UNCHANGED <<fetched, node_state, cpuVars, ioVars>>
    BY DEF WriteWord
<1>4. a # 0
    BY <1>1, ProgramShort DEF MemoryInv
<1>5. RegisterInv' /\ LapInv'
  <2> HIDE DEF a
  <2> QED BY <1>2, <1>3, StoreKeeps
<1>6. memory'[0] = memory[0]
    BY <1>2, <1>4
<1>7. last_instruction_address' = last_instruction_address /\ node_pc' = node_pc
    BY <1>3, <1>6 DEF last_instruction_address, cpuVars
<1> QED BY <1>1, <1>5, <1>7 DEF CounterInv

LEMMA HostStep ==
    ASSUME HostInv, [Next]_vars
    PROVE  HostInv'
<1>1. TextInv' /\ MemoryInv'
    BY TextHolds, MemoryHolds DEF HostInv
<1>2. RegisterInv' /\ CounterInv' /\ LapInv'
  <2>1. CASE Read \/ EndOfInput \/ Start \/ UNCHANGED vars
    <3>1. UNCHANGED <<memory, fetched, node_state, cpuVars, ioVars>>
        BY <2>1 DEF Read, EndOfInput, Start, vars, execVars
    <3> QED BY <3>1, MainKeeps
  <2>2. CASE Configure
    BY <2>2, ConfigureKeeps
  <2>3. CASE WriteWord
    BY <2>3, WriteKeeps
  <2>4. CASE NodeEdge
    BY <2>4, NodeKeeps
  <2> QED BY <2>1, <2>2, <2>3, <2>4 DEF Next
<1> QED BY <1>1, <1>2 DEF HostInv

LEMMA HostStarts == ASSUME Init PROVE HostInv
<1>1. /\ script \in Seq(TextLines) /\ writer \in {"main", "configure_node"}
  <2>1. PICK s \in Scripts : script = s.text /\ writer = s.writer
    BY DEF Init
  <2>2. s \in [text : Seq(TextLines), writer : {"main", "configure_node"}]
    BY HostAssumption
  <2> QED BY <2>1, <2>2
<1>2. /\ buffer = <<>> /\ lines = <<>> /\ program = <<>>
      /\ phase = "reading" /\ written = 0 /\ fetched = 0
    BY DEF Init
<1>3. /\ memory = [a \in Addresses |-> 0] /\ node_state = "RUN"
      /\ node_pc = 0 /\ node_acc = 0 /\ node_bak = 0 /\ node_io_value = 0
      /\ node_io_read = FALSE /\ node_io_write = FALSE
      /\ node_src_reg = "NIL" /\ node_dst_reg = "NIL" /\ node_last = "NIL"
    BY DEF Init, ExecInit
<1>4. TextInv
  <2>1. Len(buffer) < ASM_SIZE /\ buffer \in Seq(TextLines)
    BY <1>2, HostAssumption DEF TableSize
  <2> QED BY <1>1, <1>2, <2>1 DEF TextInv, NotAssembled
<1>5. MemoryInv
  <2>1. NotWritten
    BY <1>2 DEF NotWritten, NotAssembled
  <2>2. memory = [a \in Addresses |-> Stored(a)]
    BY <1>2, <1>3, <2>1, NothingStored
  <2> QED BY <1>2, <2>1, <2>2 DEF MemoryInv
<1>6. RegisterInv
  <2>1. "RUN" \in Phases /\ 0 \in Word11 /\ "NIL" \in Registers /\ 0 \in Word16
    BY ZeroWord DEF Phases, Word11, Registers
  <2> QED BY <1>2, <1>3, <2>1, Zenon DEF RegisterInv
<1>7. CounterInv
  <2>1. last_instruction_address \in Nat
    BY <1>4, <1>5, MemoryWords, AddressRange
  <2> HIDE DEF last_instruction_address
  <2> QED BY <1>3, <2>1 DEF CounterInv
<1>8. LapInv
    BY <1>2, <1>3, Zenon DEF LapInv
<1> QED BY <1>4, <1>5, <1>6, <1>7, <1>8 DEF HostInv

(* Whatever is typed and whatever the node does meanwhile, its memory is   *)
(* the words stored and zeros, and no store takes away a word that is      *)
(* under way.                                                              *)
THEOREM HostHolds == Spec => []HostInv
<1>1. Init => HostInv
    BY HostStarts
<1>2. HostInv /\ [Next]_vars => HostInv'
    BY HostStep
<1> QED BY <1>1, <1>2, PTL DEF Spec

-----------------------------------------------------------------------------
(* What it is for. *)

LEMMA TypesFollow == HostInv => TypeOK
<1> SUFFICES ASSUME HostInv PROVE TypeOK
    OBVIOUS
<1>1. TextInv /\ MemoryInv /\ RegisterInv /\ CounterInv
    BY DEF HostInv
<1>2. program \in Seq(Word16) /\ Len(program) <= TableSize
    BY <1>1, ProgramShort DEF TableSize
<1>3. memory \in [Addresses -> Word16] /\ node_pc \in Addresses
    BY <1>1, MemoryWords, CurrentWord
<1> QED BY <1>1, <1>2, <1>3 DEF TypeOK, TextInv, MemoryInv, RegisterInv

(* The state of hello_ucosii.c (main, lines 98 to 141) and of the node it  *)
(* writes into stays in its types: the buffer does not overflow, the words *)
(* fit the table of sixteen, and the count of those written is one of them.*)
THEOREM TypesHold == Spec => []TypeOK
BY HostHolds, TypesFollow, PTL

LEMMA WordAt ==
    ASSUME TextInv, MemoryInv, NEW i \in 1 .. 15
    PROVE  memory[i] = IF i <= written THEN program[i] ELSE 0
<1>1. i \in Addresses /\ i # 0
    BY AddressRange
<1> QED BY <1>1 DEF MemoryInv, Stored

LEMMA RunsFollows == HostInv => RunsTheProgramOnly
<1> SUFFICES ASSUME HostInv,
                    ~(writer = "configure_node" /\ Len(program) = 15), program # <<>>
             PROVE  /\ node_pc < 15
                    /\ current_instruction \in {0} \cup {program[i] : i \in 1 .. written}
                    /\ phase = "started" /\ writer = "main" => node_pc < Len(program)
    BY DEF RunsTheProgramOnly
<1>1. TextInv /\ MemoryInv /\ CounterInv
    BY DEF HostInv
<1>2. Len(program) \in Nat /\ Len(program) <= 15 /\ Len(program) >= 1
    BY <1>1, ProgramShort
<1>3. LastAddress = IF writer = "main" THEN Len(program) - 1 ELSE Len(program)
  <2> DEFINE n == Len(program)
  <2>1. n \in Nat /\ n >= 1 /\ n <= 15
    BY <1>2
  <2>2. LastAddress = IF writer = "main" THEN (n + 15) % 16 ELSE n
    BY DEF LastAddress
  <2> HIDE DEF n
  <2>3. (n + 15) % 16 = n - 1
    BY <2>1
  <2> QED BY <2>2, <2>3 DEF n
<1>4. writer = "main" \/ writer = "configure_node"
    BY <1>1 DEF TextInv
<1>5. LastAddress \in Nat /\ LastAddress < 15
  <2>1. CASE writer = "main"
    BY <1>2, <1>3, <2>1
  <2>2. CASE writer = "configure_node"
    <3>1. Len(program) # 15 /\ LastAddress = Len(program)
        BY <1>3, <2>2
    <3> QED BY <1>2, <3>1
  <2> QED BY <1>4, <2>1, <2>2
<1>6. /\ node_pc \in Nat /\ node_pc <= last_instruction_address
      /\ last_instruction_address = IF NotWritten THEN 0 ELSE LastAddress
  <2>1. /\ last_instruction_address = IF NotWritten THEN 0 ELSE LastAddress
        /\ node_pc \in Addresses /\ last_instruction_address \in Addresses
    BY <1>1, MemoryWords, CurrentWord
  <2> QED BY <1>1, <2>1, AddressRange DEF CounterInv
<1> HIDE DEF last_instruction_address
<1>7. node_pc < 15
    BY <1>5, <1>6
<1>8. node_pc + 1 \in 1 .. 15 /\ (node_pc + 1) % 16 = node_pc + 1
    BY <1>6, <1>7
<1>9. current_instruction = IF node_pc + 1 <= written THEN program[node_pc + 1] ELSE 0
    BY <1>1, <1>8, WordAt DEF current_instruction
<1>10. phase = "started" /\ writer = "main" => node_pc < Len(program)
    BY <1>2, <1>3, <1>6 DEF NotWritten, NotAssembled
<1>11. written \in Nat
    BY <1>1, <1>2 DEF MemoryInv
<1>12. node_pc + 1 <= written => node_pc + 1 \in 1 .. written
    BY <1>6, <1>11
<1> QED BY <1>7, <1>9, <1>10, <1>12

(* The length is stored first, while the node may run (hello_ucosii.c:121  *)
(* to 124, tis_execution_node.vhd:139 and 158): the node carries out words *)
(* of the program and zeros, never its own configuration.                  *)
THEOREM OnlyTheProgramRuns == Spec => []RunsTheProgramOnly
BY HostHolds, RunsFollows, PTL

LEMMA UploadedWord ==
    ASSUME HostInv, NEW i \in 1 .. 15, Uploaded(i)
    PROVE  /\ memory[i] = Linked(lines, Instructions(lines)[i])
           /\ Assemblable(Instructions(lines)[i])
           /\ lines \in Seq(TextLines) /\ Len(lines) <= 15
<1>1. TextInv /\ MemoryInv /\ phase = "started" /\ i <= Len(program)
    BY DEF HostInv, Uploaded
<1>2. lines = buffer /\ ~Rejected(lines) /\ program = Assembled(lines)
    BY <1>1 DEF TextInv, NotAssembled
<1>3. lines \in Seq(TextLines) /\ Len(lines) <= 15
    BY <1>1, <1>2, ProgramShort
<1>4. written = Len(program)
    BY <1>1 DEF MemoryInv
<1>5. memory[i] = program[i]
    BY <1>1, <1>4, WordAt
<1>6. i \in 1 .. Len(Assembled(lines))
    BY <1>1, <1>2, ProgramShort
<1> QED BY <1>2, <1>3, <1>5, <1>6, ProgramFits

LEMMA TextFollows == HostInv => TextBecomesProgram
<1> DEFINE line(i) == Instructions(lines)[i]
<1> SUFFICES ASSUME HostInv, NEW i \in 1 .. 15, Uploaded(i), Plain(line(i)),
                    KeepsOperand(line(i).op, line(i).src.name, line(i).dst.name)
             PROVE  Effect(memory[i]) = Meaning(line(i))
    BY DEF TextBecomesProgram
<1>1. SameAsText(line(i), memory[i])
    BY UploadedWord, LineIsMeant
<1> QED BY <1>1 DEF SameAsText

(* tis_assemble_program and tis_execution_node.vhd agree on the words:     *)
(* when the tasks start, what the node does for the word at each address   *)
(* is what the line says that the word was made from; JRO and the MOVs to  *)
(* a port that lose what comes over DOWN are left out.                     *)
THEOREM TextIsCarriedOut == Spec => []TextBecomesProgram
BY HostHolds, TextFollows, PTL

(* The loop of node_info takes the words in their order, as many as the    *)
(* last four bits of the length say.                                       *)
LEMMA Listed ==
    ASSUME HostInv
    PROVE  /\ Len(NodeInfo) = memory[0] % 16 /\ Len(NodeInfo) \in 0 .. 15
           /\ \A i \in 1 .. Len(NodeInfo) : NodeInfo[i] = Disassembled(memory[i])
<1>1. memory[0] \in Nat
  <2>1. memory \in [Addresses -> Word16] /\ 0 \in Addresses
    BY MemoryWords, AddressRange DEF HostInv
  <2> QED BY <2>1 DEF Word16
<1> DEFINE n == memory[0] % 16
<1>2. n \in 0 .. 15
    BY <1>1
<1>3. NodeInfo = [i \in 1 .. n |-> Disassembled(memory[i])]
    BY DEF NodeInfo
<1> HIDE DEF n
<1>4. Len(NodeInfo) = n
    BY <1>2, <1>3
<1> QED BY <1>2, <1>3, <1>4 DEF n

LEMMA ListingFollows == HostInv => ListingReadsBack
<1> SUFFICES ASSUME HostInv PROVE ListingReadsBack
    OBVIOUS
<1>1. ASSUME NEW i \in 1 .. 15, Uploaded(i), i <= Len(NodeInfo), Plain(Instructions(lines)[i]),
             Instructions(lines)[i].op # "JGZ"
      PROVE  LET line == Instructions(lines)[i]
                 back == NodeInfo[i]
             IN IF line.op \in Jumps
                  THEN back.op = line.op /\ back.src.number \in Positions(lines, line.src.name)
                  ELSE Meaning(back) = Meaning(line)
  <2>1. SameAsText(Instructions(lines)[i], memory[i])
    BY <1>1, UploadedWord, LineIsMeant
  <2>2. NodeInfo[i] = Disassembled(memory[i])
    BY <1>1, Listed
  <2> QED BY <1>1, <2>1, <2>2 DEF SameAsText
<1>2. ASSUME phase = "started", writer = "configure_node"
      PROVE  Len(NodeInfo) = Len(program)
  <2>1. TextInv /\ MemoryInv
    BY DEF HostInv
  <2>2. memory[0] = Length
    <3>1. 0 \in Addresses /\ ~NotWritten
        BY <1>2, AddressRange DEF NotWritten, NotAssembled
    <3> QED BY <2>1, <3>1 DEF MemoryInv, Stored
  <2>3. Len(program) \in Nat /\ Len(program) <= 15
    BY <2>1, ProgramShort
  <2>4. Length = Len(program) % 16
    BY <1>2 DEF Length
  <2>5. (Len(program) % 16) % 16 = Len(program)
    BY <2>3
  <2> QED BY <2>2, <2>4, <2>5, Listed
<1> QED BY <1>1, <1>2 DEF ListingReadsBack

(* What node_info lists (tis_node.c:29 to 47, through tis_dissassemble)    *)
(* gives the text back, with addresses in place of the names of labels,    *)
(* and after configure_node all of it.                                     *)
THEOREM ListingIsTheText == Spec => []ListingReadsBack
BY HostHolds, ListingFollows, PTL

LEMMA NothingAdded == \A v \in Word11 : Wrap11(v + 0) = v /\ Wrap11(v - 0) = v
BY DEF Word11, Wrap11

Torn ==
    /\ node_state = "FINISH" /\ node_state' = "RUN"
    /\ current_instruction # fetched
    /\ Operation(current_instruction) \in {"ADD", "SUB", "other"}

LEMMA TornStep ==
    ASSUME HostInv, [Next]_vars, Torn
    PROVE  UNCHANGED <<node_acc, node_bak>>
<1>1. NodeEdge
  <2>1. node_state' # node_state
    BY DEF Torn
  <2> QED BY <2>1 DEF Next, Read, EndOfInput, Configure, WriteWord, Start, vars, execVars
<1>2. fetched = 0 /\ ~node_io_read /\ ~node_io_write /\ node_io_value = 0
    BY DEF HostInv, LapInv, Torn
<1>3. FinishInstruction
    BY <1>1, <1>2, QuietEdge
       DEF Torn, Decode, Try, Conveying, FinishOperand, FinishNoRead, FinishWrite, Reading, Writing
<1>4. Execute(0, node_acc, node_pc)
    BY <1>2, <1>3 DEF FinishInstruction
<1>5. node_acc \in Word11
    BY DEF HostInv, RegisterInv
<1>6. Result(Operation(current_instruction), 0, node_acc) = node_acc
    BY <1>5, NothingAdded DEF Result, Torn
<1>7. node_acc' = node_acc
    BY <1>4, <1>6 DEF Execute
<1>8. node_bak' = node_bak
    BY <1>4 DEF Execute, Torn
<1> QED BY <1>7, <1>8

(* A store may fall between phase RUN and phase FINISH of the node         *)
(* (tis_execution_node.vhd:226 and 433): the word is carried out with the  *)
(* operand of the one it replaces, and that never changes a number.        *)
THEOREM TornWordsAreHarmless == Spec => TornIsHarmless
<1>1. HostInv /\ [Next]_vars => [Torn => UNCHANGED <<node_acc, node_bak>>]_vars
    BY TornStep
<1> QED BY <1>1, HostHolds, PTL DEF Spec, TornIsHarmless, Torn
=============================================================================
