-------------------------- MODULE AssemblerProofs ---------------------------
(***************************************************************************)
(* Theorems about the four passes of Assembler, for every set of programs, *)
(* every size of byte and of RAM and whatever malloc leaves.               *)
(***************************************************************************)
EXTENDS AssemblerLines, FiniteSetTheorems, TLAPS, RamProofs

-----------------------------------------------------------------------------
(* One line and its word, for every line, every table of labels and every  *)
(* table of constants: what is accepted has an encoding in which no field  *)
(* spills into another.                                                    *)
(* Every set of numbers has a smallest one: `<' is well founded.           *)
LEMMA Smallest ==
  ASSUME NEW T \in SUBSET Nat, T # {}
  PROVE  \E x \in T : \A y \in T : x <= y
<1> DEFINE L == OpToRel(<, Nat)
<1>1. IsWellFoundedOn(L, Nat)
  BY NatLessThanWellFounded
<1>2. \A x, y \in Nat : x < y => <<x, y>> \in L
  BY DEF OpToRel
<1> HIDE DEF L
<1>3. PICK x \in T : \A y \in T : ~ (<<y, x>> \in L)
  BY <1>1, WFMin
<1>4. ASSUME NEW y \in T PROVE x <= y
  <2>1. x \in Nat /\ y \in Nat
    OBVIOUS
  <2>2. ~ (y < x)
    BY <1>2, <1>3, <2>1
  <2>. QED  BY <2>1, <2>2
<1>. QED
  BY <1>4

(* findLabel and findConstantIndex find the first entry of a name.         *)
LEMMA FirstIndexIsFirst ==
  ASSUME NEW table, IsSequence(table), NEW name, Defined(name, table)
  PROVE  /\ FirstIndex(name, table) \in DOMAIN table
         /\ table[FirstIndex(name, table)].name = name
         /\ \A j \in DOMAIN table : table[j].name = name => FirstIndex(name, table) <= j
<1> DEFINE T == {k \in DOMAIN table : table[k].name = name}
<1>1. T \in SUBSET Nat /\ T # {}
  BY DEF Defined, IsSequence
<1>2. PICK k \in T : \A j \in T : k <= j
  BY <1>1, Smallest
<1>3. k \in DOMAIN table /\ table[k].name = name /\ \A j \in DOMAIN table : table[j].name = name => k <= j
  BY <1>2
<1>. QED
  BY <1>3 DEF FirstIndex

-----------------------------------------------------------------------------
(* The weights of the fields are multiples of each other; nothing else     *)
(* about their size matters.                                               *)
LEMMA Weights ==
  /\ ARG2_IMM_MASK \in Nat /\ ARG2_IMM_MASK > 16
  /\ ARG2_REG_MASK = 2 * ARG2_IMM_MASK
  /\ ARG2_ADDR_MASK = ARG2_IMM_MASK
  /\ MAX_IMMEDIATE_VALUE = ARG2_IMM_MASK - 1
  /\ ARG1_SHIFT = 4 * ARG2_IMM_MASK
  /\ JMP_LIMIT = 32 * ARG2_IMM_MASK
  /\ OPCODE_SHIFT = 128 * ARG2_IMM_MASK
  /\ ARG1_ADDR_MASK = 16
  /\ Instruction = {i \in Int : - (4096 * ARG2_IMM_MASK) <= i /\ i < 4096 * ARG2_IMM_MASK}
BY SMT DEF ARG2_IMM_MASK, ARG2_REG_MASK, ARG2_ADDR_MASK, MAX_IMMEDIATE_VALUE, ARG1_SHIFT,
           JMP_LIMIT, OPCODE_SHIFT, ARG1_ADDR_MASK, Instruction

LEMMA Division ==
  ASSUME NEW weight \in Nat, weight > 0, NEW n \in Int, NEW rest \in 0 .. weight - 1
  PROVE  (weight * n + rest) \div weight = n /\ (weight * n + rest) % weight = rest
BY SMT

(* The fields of a word: a signed opcode, a first argument of five bits    *)
(* and a second one of 21, below them.                                     *)
Fields(op, f, x) == OPCODE_SHIFT * op + ARG1_SHIFT * f + x

LEMMA FieldsReadBack ==
  ASSUME NEW op \in -32 .. 31, NEW f \in 0 .. 31, NEW x \in 0 .. ARG1_SHIFT - 1,
         NEW w, w = Fields(op, f, x)
  PROVE  /\ OPCODE(w) = op
         /\ ARG1_VALUE(w) = f % 16
         /\ IS_ARG1_ADDR(w) <=> f >= 16
<1>1. w = ARG1_SHIFT * (32 * op + f) + x
  BY Weights DEF Fields
<1>2. w \div ARG1_SHIFT = 32 * op + f
  BY <1>1, Weights, Division
<1>3. (32 * op + f) % 32 = f /\ (32 * op + f) % 16 = f % 16
  OBVIOUS
<1>4. ARG1_SHIFT * f + x \in 0 .. OPCODE_SHIFT - 1
  BY Weights
<1>5. w = OPCODE_SHIFT * op + (ARG1_SHIFT * f + x)
  BY Weights DEF Fields
<1>6. OPCODE(w) = op
  BY <1>4, <1>5, Weights, Division DEF OPCODE
<1>. QED
  BY <1>2, <1>3, <1>6, Weights DEF ARG1_VALUE, IS_ARG1_ADDR

LEMMA SecondFieldReadsBack ==
  ASSUME NEW n \in Int, NEW q \in 0 .. 3, NEW v \in 0 .. MAX_IMMEDIATE_VALUE,
         NEW w, w = ARG1_SHIFT * n + ARG2_IMM_MASK * q + v
  PROVE  /\ ARG2_VALUE(w) = v
         /\ IS_ARG2_REG(w) <=> (q >= 2)
         /\ IS_ARG2_IMM(w) <=> (q \in {1, 3})
         /\ IS_ARG2_ADDR(w) <=> (q \in {1, 3})
<1>1. w = ARG2_IMM_MASK * (4 * n + q) + v
  BY Weights
<1>2. w \div ARG2_IMM_MASK = 4 * n + q /\ w % ARG2_IMM_MASK = v
  <2>1. v \in 0 .. ARG2_IMM_MASK - 1 /\ 4 * n + q \in Int /\ ARG2_IMM_MASK \in Nat /\ ARG2_IMM_MASK > 0
    BY Weights
  <2>. QED  BY <1>1, <2>1, Division
<1>3. (4 * n + q) % 2 = q % 2 /\ (4 * n + q) \div 2 = 2 * n + q \div 2
  OBVIOUS
<1>4. w \div ARG2_REG_MASK = 2 * n + q \div 2
  <2> DEFINE rest == ARG2_IMM_MASK * (q % 2) + v
  <2>1. rest \in 0 .. ARG2_REG_MASK - 1
    BY Weights
  <2>2. w = ARG2_REG_MASK * (2 * n + q \div 2) + rest
    BY <1>1, Weights
  <2> HIDE DEF rest
  <2>. QED  BY <2>1, <2>2, Weights, Division
<1>5. (2 * n + q \div 2) % 2 = q \div 2
  OBVIOUS
<1>. QED
  BY <1>2, <1>3, <1>4, <1>5, Weights DEF ARG2_VALUE, IS_ARG2_REG, IS_ARG2_IMM, IS_ARG2_ADDR

-----------------------------------------------------------------------------
(* The tables as the passes before parseInstructions leave them.           *)
TablesFit ==
  /\ IsSequence(labels) /\ IsSequence(constants)
  /\ \A k \in DOMAIN labels : labels[k].address \in 0 .. MAX_IMMEDIATE_VALUE
  /\ Len(constants) <= MAX_IMMEDIATE_VALUE + 1

(* The two upper bits and the 19 lower bits an argument gets as the last   *)
(* one of its line.                                                        *)
Mode(arg) ==
  CASE arg.kind = "reg" -> IF arg.reg >= 0 THEN 2 ELSE 0
    [] arg.kind = "addr" -> 3
    [] arg.kind \in {"label", "imm"} -> 1
    [] arg.kind \in {"const", "other"} -> 0

Operand(arg) ==
  CASE arg.kind = "reg" -> IF arg.reg >= 0 THEN arg.reg ELSE 0
    [] arg.kind = "addr" -> arg.reg
    [] arg.kind = "label" -> labels[FirstIndex(arg.name, labels)].address
    [] arg.kind = "imm" -> parseImmediateNumber(arg)
    [] arg.kind = "const" -> findConstantIndex(arg.name, constants)
    [] arg.kind = "other" -> 0

LEMMA ImmediateOfNatural ==
  ASSUME NEW value \in 0 .. MAX_IMMEDIATE_VALUE
  PROVE  ImmediateBits(value) = ARG2_IMM_MASK + value
<1>1. ARG2_IMM_MASK \in Nat /\ ARG2_IMM_MASK > 0 /\ value \in 0 .. ARG2_IMM_MASK - 1
  BY Weights
<1>2. value = ARG2_IMM_MASK * 0 + value
  BY <1>1
<1>3. value \div ARG2_IMM_MASK = 0
  BY <1>1, <1>2, Division
<1>. QED
  BY <1>1, <1>3 DEF ImmediateBits, IS_ARG2_IMM

(* A negative number stays one.                                            *)
LEMMA ImmediateOfNegative ==
  ASSUME NEW value \in Instruction, value < 0
  PROVE  ImmediateBits(value) \in Instruction /\ ImmediateBits(value) < 0
BY SMT DEF ImmediateBits, IS_ARG2_IMM, ARG2_IMM_MASK, Instruction

LEMMA SecondArgument ==
  ASSUME TablesFit, NEW arg, IsArgument(arg), ~ parseArg2Rejected(arg, labels, constants),
         arg.kind = "imm" => parseImmediateNumber(arg) >= 0
  PROVE  /\ Mode(arg) \in 0 .. 3 /\ Operand(arg) \in 0 .. MAX_IMMEDIATE_VALUE
         /\ parseArg2(arg, labels, constants) = ARG2_IMM_MASK * Mode(arg) + Operand(arg)
<1>1. CASE arg.kind = "reg"
  BY <1>1, Weights DEF IsArgument, Mode, Operand, parseArg2
<1>2. CASE arg.kind = "addr"
  <2>1. arg.reg \in 0 .. 15
    BY <1>2, Weights DEF IsArgument, parseArg2Rejected
  <2>. QED  BY <1>2, <2>1, Weights DEF Mode, Operand, parseArg2
<1>3. CASE arg.kind = "label"
  <2>1. labels[FirstIndex(arg.name, labels)].address \in 0 .. MAX_IMMEDIATE_VALUE
    BY <1>3, FirstIndexIsFirst DEF TablesFit, parseArg2Rejected
  <2>. QED  BY <1>3, <2>1, ImmediateOfNatural, Weights DEF Mode, Operand, parseArg2
<1>4. CASE arg.kind = "imm"
  <2>1. parseImmediateNumber(arg) \in 0 .. MAX_IMMEDIATE_VALUE
    BY <1>4, Weights DEF IsArgument, parseArg2Rejected, ImmediateRejected
  <2>. QED  BY <1>4, <2>1, ImmediateOfNatural, Weights DEF Mode, Operand, parseArg2
<1>5. CASE arg.kind = "const"
  <2>1. Defined(arg.name, constants)
    BY <1>5 DEF parseArg2Rejected
  <2>2. FirstIndex(arg.name, constants) \in 1 .. Len(constants) /\ Len(constants) \in Nat
    BY <2>1, FirstIndexIsFirst DEF TablesFit, IsSequence
  <2>3. findConstantIndex(arg.name, constants) \in 0 .. MAX_IMMEDIATE_VALUE
    <3>1. Len(constants) <= MAX_IMMEDIATE_VALUE + 1
      BY DEF TablesFit
    <3>2. MAX_IMMEDIATE_VALUE \in Nat
      BY Weights
    <3>. QED  BY <2>2, <3>1, <3>2 DEF findConstantIndex
  <2>. QED  BY <1>5, <2>3, Weights DEF Mode, Operand, parseArg2
<1>6. CASE arg.kind = "other"
  BY <1>6, Weights DEF Mode, Operand, parseArg2
<1>. QED
  BY <1>1, <1>2, <1>3, <1>4, <1>5, <1>6 DEF IsArgument

(* The five bits of the first of two arguments.                            *)
LEMMA FirstArgument ==
  ASSUME NEW arg, IsArgument(arg), ~ parseArg1Rejected(arg)
  PROVE  \E f \in 0 .. 31 : /\ parseArg1(arg) = ARG1_SHIFT * f
                            /\ f % 16 = arg.reg
                            /\ (f >= 16 <=> arg.kind = "addr")
<1> DEFINE f == arg.reg + IF arg.kind = "addr" THEN ARG1_ADDR_MASK ELSE 0
<1>1. arg.kind \in {"reg", "addr"} /\ arg.reg \in 0 .. 15
  BY Weights DEF parseArg1Rejected, IsArgument
<1>2. f \in 0 .. 31 /\ f % 16 = arg.reg /\ (f >= 16 <=> arg.kind = "addr")
  BY <1>1, Weights
<1>. QED
  BY <1>2 DEF parseArg1

(* The argument of JMP and CALL.                                           *)
LEMMA JumpArgument ==
  ASSUME TablesFit, NEW arg, IsArgument(arg), ~ parseJmpRejected(arg, labels)
  PROVE  parseJmp(arg, labels) \in 0 .. MAX_IMMEDIATE_VALUE
<1>1. CASE arg.kind = "label"
  BY <1>1, FirstIndexIsFirst DEF TablesFit, parseJmpRejected, parseJmp
<1>2. CASE arg.kind = "imm"
  BY <1>2, Weights DEF IsArgument, parseJmpRejected, parseJmp, ImmediateRejected
<1>. QED
  BY <1>1, <1>2 DEF IsArgument, parseJmpRejected

-----------------------------------------------------------------------------
(* What parseInstructions has checked of a line it encodes.                *)
Accepted(line) == IsLine(line) /\ line.kind = "code" /\ ~ LineRejected(line, labels, constants)

LEMMA AcceptedLine ==
  ASSUME NEW line, Accepted(line)
  PROVE  /\ line.op \in 0 .. MAX_OPCODES - 1
         /\ DOMAIN line.args = 1 .. Len(line.args) /\ Len(line.args) \in 0 .. 2
         /\ Len(line.args) = opcodeNumArgs(line.op)
         /\ line.args # <<>> => Len(line.args) > 0 /\ Last(line.args) = line.args[Len(line.args)]
         /\ line.args = <<>> => Len(line.args) = 0
         /\ \A k \in DOMAIN line.args : IsArgument(line.args[k])
         /\ Len(line.args) = 2 => ~ parseArg1Rejected(line.args[1])
         /\ Jumps(line) => Len(line.args) = 1 /\ ~ parseJmpRejected(line.args[1], labels)
         /\ line.args # <<>> /\ ~ Jumps(line) => ~ parseArg2Rejected(Last(line.args), labels, constants)
<1>1. line.op \in -1 .. MAX_OPCODES - 1 /\ IsSequence(line.args) /\ \A k \in DOMAIN line.args : IsArgument(line.args[k])
  BY DEF Accepted, IsLine
<1>2. DOMAIN line.args = 1 .. Len(line.args) /\ Len(line.args) \in Nat /\ (line.args # <<>> => Len(line.args) > 0)
  BY <1>1 DEF IsSequence
<1>3. ~ FirstArgRejected(line)
  BY DEF Accepted, LineRejected
<1>4. line.op \in 0 .. MAX_OPCODES - 1 /\ Len(line.args) = opcodeNumArgs(line.op)
  BY <1>1, <1>3 DEF FirstArgRejected, MAX_OPCODES
<1>5. opcodeNumArgs(line.op) \in 0 .. 2
  BY DEF opcodeNumArgs
<1>6. Jumps(line) => opcodeNumArgs(line.op) = 1
  BY DEF Jumps, opcodeNumArgs, JMP, CALL, RET, NOOP
<1>7. Last(line.args) = line.args[Len(line.args)]
  BY DEF Last
<1>. QED
  BY <1>1, <1>2, <1>3, <1>4, <1>5, <1>6, <1>7 DEF FirstArgRejected, Accepted, LineRejected

(* The parts of a word.                                                    *)
SecondPart(line) ==
  IF line.args = <<>> THEN 0
  ELSE IF Jumps(line) THEN parseJmp(line.args[1], labels)
  ELSE parseArg2(Last(line.args), labels, constants)

LEMMA EncodedParts ==
  ASSUME NEW line, Accepted(line)
  PROVE  \E f \in 0 .. 31 :
           /\ Encode(line, labels, constants) = Combine(line.op, ARG1_SHIFT * f, SecondPart(line))
           /\ Len(line.args) = 2 => f % 16 = line.args[1].reg /\ (f >= 16 <=> line.args[1].kind = "addr")
           /\ Len(line.args) # 2 => f = 0
<1>1. CASE Len(line.args) = 2
  <2>1. IsArgument(line.args[1]) /\ ~ parseArg1Rejected(line.args[1])
    BY <1>1, AcceptedLine
  <2>. QED  BY <1>1, <2>1, FirstArgument DEF Encode, SecondPart
<1>2. CASE Len(line.args) # 2
  <2>1. ARG1_SHIFT * 0 = 0
    BY Weights
  <2>. QED  BY <1>2, <2>1 DEF Encode, SecondPart
<1>. QED
  BY <1>1, <1>2

Negative(line) ==
  /\ line.args # <<>> /\ ~ Jumps(line)
  /\ Last(line.args).kind = "imm" /\ parseImmediateNumber(Last(line.args)) < 0

LEMMA SecondPartType ==
  ASSUME TablesFit, NEW line, Accepted(line)
  PROVE  /\ Negative(line) => /\ parseImmediateNumber(Last(line.args)) \in Instruction
                              /\ SecondPart(line) \in Instruction /\ SecondPart(line) < 0
         /\ ~ Negative(line) => SecondPart(line) \in 0 .. ARG1_SHIFT - 1
         /\ ~ Negative(line) /\ line.args # <<>> /\ ~ Jumps(line) =>
              /\ Mode(Last(line.args)) \in 0 .. 3
              /\ Operand(Last(line.args)) \in 0 .. MAX_IMMEDIATE_VALUE
              /\ SecondPart(line) = ARG2_IMM_MASK * Mode(Last(line.args)) + Operand(Last(line.args))
         /\ Jumps(line) => SecondPart(line) = parseJmp(line.args[1], labels)
                           /\ SecondPart(line) \in 0 .. MAX_IMMEDIATE_VALUE
<1> DEFINE arg == Last(line.args)
<1>1. CASE line.args = <<>>
  BY <1>1, AcceptedLine, Weights DEF SecondPart, Negative
<1>2. CASE Jumps(line)
  <2>1. IsArgument(line.args[1]) /\ ~ parseJmpRejected(line.args[1], labels) /\ line.args # <<>>
    BY <1>2, AcceptedLine
  <2>2. parseJmp(line.args[1], labels) \in 0 .. MAX_IMMEDIATE_VALUE
    BY <2>1, JumpArgument
  <2>. QED  BY <1>2, <2>1, <2>2, Weights DEF SecondPart, Negative
<1>3. CASE line.args # <<>> /\ ~ Jumps(line)
  <2>1. IsArgument(arg) /\ ~ parseArg2Rejected(arg, labels, constants) /\ SecondPart(line) = parseArg2(arg, labels, constants)
    BY <1>3, AcceptedLine DEF SecondPart
  <2>2. CASE Negative(line)
    <3>1. arg.kind = "imm" /\ parseImmediateNumber(arg) < 0 /\ parseImmediateNumber(arg) \in Instruction
      BY <2>1, <2>2 DEF Negative, IsArgument
    <3>2. parseArg2(arg, labels, constants) = ImmediateBits(parseImmediateNumber(arg))
      BY <3>1 DEF parseArg2
    <3>. QED  BY <1>3, <2>1, <2>2, <3>1, <3>2, ImmediateOfNegative
  <2>3. CASE ~ Negative(line)
    <3>1. arg.kind = "imm" => parseImmediateNumber(arg) >= 0
      BY <1>3, <2>1, <2>3 DEF Negative, IsArgument, Instruction
    <3>2. /\ Mode(arg) \in 0 .. 3 /\ Operand(arg) \in 0 .. MAX_IMMEDIATE_VALUE
          /\ SecondPart(line) = ARG2_IMM_MASK * Mode(arg) + Operand(arg)
      BY <2>1, <3>1, SecondArgument
    <3>3. SecondPart(line) \in 0 .. ARG1_SHIFT - 1
      BY <3>2, Weights
    <3>. QED  BY <1>3, <2>3, <3>2, <3>3
  <2>. QED  BY <2>2, <2>3
<1>. QED
  BY <1>1, <1>2, <1>3

LEMMA FiveBits ==
  ASSUME NEW b0 \in {0, 1}, NEW b1 \in {0, 1}, NEW b2 \in {0, 1}, NEW b3 \in {0, 1}, NEW b4 \in {0, 1}
  PROVE  \E v \in 0 .. 31 :
           /\ (v \div 1) % 2 = b0 /\ (v \div 2) % 2 = b1 /\ (v \div 4) % 2 = b2
           /\ (v \div 8) % 2 = b3 /\ (v \div 16) % 2 = b4
<1> DEFINE v == b0 + 2 * b1 + 4 * b2 + 8 * b3 + 16 * b4
<1>1. v \in 0 .. 31
  OBVIOUS
<1>2. /\ (v \div 1) % 2 = b0 /\ (v \div 2) % 2 = b1 /\ (v \div 4) % 2 = b2
      /\ (v \div 8) % 2 = b3 /\ (v \div 16) % 2 = b4
  OBVIOUS
<1>. QED
  BY <1>1, <1>2

(* Any five bits are those of a number: `|' of two fields is a field.      *)
LEMMA OrBitsType ==
  ASSUME NEW a, NEW b
  PROVE  OrBits(a, b) \in 0 .. 31
<1> DEFINE Set(bit) == (a \div bit) % 2 = 1 \/ (b \div bit) % 2 = 1
           Bit(bit) == IF Set(bit) THEN 1 ELSE 0
<1>1. \A bit : Bit(bit) \in {0, 1} /\ (Bit(bit) = 1 <=> Set(bit))
  OBVIOUS
<1> HIDE DEF Bit
<1>2. PICK v \in 0 .. 31 :
        /\ (v \div 1) % 2 = Bit(1) /\ (v \div 2) % 2 = Bit(2) /\ (v \div 4) % 2 = Bit(4)
        /\ (v \div 8) % 2 = Bit(8) /\ (v \div 16) % 2 = Bit(16)
  BY <1>1, FiveBits
<1>3. \A bit \in {1, 2, 4, 8, 16} : (v \div bit) % 2 = 1 <=> Set(bit)
  BY <1>1, <1>2
<1>. QED
  BY <1>3 DEF OrBits

(* With a negative number the word has the sign bit, whatever else it is.  *)
LEMMA CombinedNegative ==
  ASSUME NEW op, NEW arg1, NEW arg2 \in Int, arg2 < 0
  PROVE  \E m \in -32 .. -1, f \in 0 .. 31, x \in 0 .. ARG1_SHIFT - 1 :
           Combine(op, arg1, arg2) = Fields(m, f, x)
<1> DEFINE m == OrBits(op, OPCODE(arg2)) - 32
           f == OrBits(arg1 \div ARG1_SHIFT, arg2 \div ARG1_SHIFT)
           x == arg2 % ARG1_SHIFT
<1>1. m \in -32 .. -1 /\ f \in 0 .. 31
  BY OrBitsType
<1>2. x \in 0 .. ARG1_SHIFT - 1
  <2>1. ARG1_SHIFT \in Nat /\ ARG1_SHIFT > 0
    BY Weights
  <2>. QED  BY <2>1
<1>3. Combine(op, arg1, arg2) = Fields(m, f, x)
  BY DEF Combine, Fields
<1>. QED
  BY <1>1, <1>2, <1>3

(* Whatever is encoded is a 32 bit word.                                   *)
LEMMA EncodeType ==
  ASSUME TablesFit, NEW line, Accepted(line)
  PROVE  Encode(line, labels, constants) \in Instruction
<1>1. PICK f \in 0 .. 31 : Encode(line, labels, constants) = Combine(line.op, ARG1_SHIFT * f, SecondPart(line))
  BY EncodedParts
<1>2. CASE Negative(line)
  <2>1. SecondPart(line) \in Int /\ SecondPart(line) < 0
    BY <1>2, SecondPartType DEF Instruction
  <2>2. PICK m \in -32 .. -1, e \in 0 .. 31, x \in 0 .. ARG1_SHIFT - 1 :
          Encode(line, labels, constants) = Fields(m, e, x)
    BY <1>1, <2>1, CombinedNegative
  <2>. QED  BY <2>2, Weights DEF Fields
<1>3. CASE ~ Negative(line)
  <2>1. SecondPart(line) \in 0 .. ARG1_SHIFT - 1
    BY <1>3, SecondPartType
  <2>2. Combine(line.op, ARG1_SHIFT * f, SecondPart(line)) = OpcodeBits(line.op) + ARG1_SHIFT * f + SecondPart(line)
    BY <2>1, Weights DEF Combine
  <2>3. line.op \in 0 .. 58
    BY AcceptedLine DEF MAX_OPCODES
  <2>4. PICK m \in -32 .. 31 : OpcodeBits(line.op) = OPCODE_SHIFT * m
    BY <2>3 DEF OpcodeBits
  <2>. QED  BY <1>1, <2>1, <2>2, <2>4, Weights
<1>. QED
  BY <1>2, <1>3

-----------------------------------------------------------------------------
(* The word of a line without a negative number, part by part.             *)
LEMMA WordOfParts ==
  ASSUME TablesFit, NEW line, Accepted(line), ~ Negative(line)
  PROVE  \E f \in 0 .. 31, m \in -32 .. 31 :
           /\ Encode(line, labels, constants) = Fields(m, f, SecondPart(line))
           /\ line.op < 32 => m = line.op
           /\ line.op >= 32 => m < 0
           /\ Len(line.args) = 2 => f % 16 = line.args[1].reg /\ (f >= 16 <=> line.args[1].kind = "addr")
           /\ Len(line.args) # 2 => f = 0
<1>1. PICK f \in 0 .. 31 :
        /\ Encode(line, labels, constants) = Combine(line.op, ARG1_SHIFT * f, SecondPart(line))
        /\ Len(line.args) = 2 => f % 16 = line.args[1].reg /\ (f >= 16 <=> line.args[1].kind = "addr")
        /\ Len(line.args) # 2 => f = 0
  BY EncodedParts
<1>2. Combine(line.op, ARG1_SHIFT * f, SecondPart(line)) = OpcodeBits(line.op) + ARG1_SHIFT * f + SecondPart(line)
  BY SecondPartType, Weights DEF Combine
<1>3. line.op \in 0 .. 58
  BY AcceptedLine DEF MAX_OPCODES
<1>4. PICK m \in -32 .. 31 : OpcodeBits(line.op) = OPCODE_SHIFT * m
                          /\ (line.op < 32 => m = line.op) /\ (line.op >= 32 => m < 0)
  BY <1>3 DEF OpcodeBits
<1>. QED
  BY <1>1, <1>2, <1>4 DEF Fields

(* The macros of the machine see the last argument as it was written.      *)
LEMMA SecondArgumentIsSaid ==
  ASSUME TablesFit, NEW line, Accepted(line), ~ Negative(line), line.args # <<>>, ~ Jumps(line),
         NEW w, w = Encode(line, labels, constants)
  PROVE  /\ ARG2_VALUE(w) = Operand(Last(line.args))
         /\ IS_ARG2_REG(w) <=> (Mode(Last(line.args)) >= 2)
         /\ IS_ARG2_IMM(w) <=> (Mode(Last(line.args)) \in {1, 3})
         /\ IS_ARG2_ADDR(w) <=> (Mode(Last(line.args)) \in {1, 3})
<1>1. PICK f \in 0 .. 31, m \in -32 .. 31 : w = Fields(m, f, SecondPart(line))
  BY WordOfParts
<1>2. /\ Mode(Last(line.args)) \in 0 .. 3
      /\ Operand(Last(line.args)) \in 0 .. MAX_IMMEDIATE_VALUE
      /\ SecondPart(line) = ARG2_IMM_MASK * Mode(Last(line.args)) + Operand(Last(line.args))
  BY SecondPartType
<1>3. w = ARG1_SHIFT * (32 * m + f) + ARG2_IMM_MASK * Mode(Last(line.args)) + Operand(Last(line.args))
  BY <1>1, <1>2, Weights DEF Fields
<1>4. 32 * m + f \in Int
  OBVIOUS
<1>. QED
  BY <1>2, <1>3, <1>4, SecondFieldReadsBack

LEMMA JumpIsSaid ==
  ASSUME TablesFit, NEW line, Accepted(line), Jumps(line)
  PROVE  ARG_JMP_VALUE(Encode(line, labels, constants)) = parseJmp(line.args[1], labels)
<1>1. ~ Negative(line) /\ Len(line.args) # 2 /\ SecondPart(line) = parseJmp(line.args[1], labels)
      /\ SecondPart(line) \in 0 .. MAX_IMMEDIATE_VALUE
  <2>1. ~ Negative(line) /\ Len(line.args) = 1
    BY AcceptedLine DEF Negative
  <2>. QED  BY <2>1, SecondPartType
<1>2. PICK m \in -32 .. 31 : Encode(line, labels, constants) = Fields(m, 0, SecondPart(line))
  BY <1>1, WordOfParts
<1>3. /\ Encode(line, labels, constants) = JMP_LIMIT * (4 * m) + SecondPart(line)
      /\ SecondPart(line) \in 0 .. JMP_LIMIT - 1 /\ 4 * m \in Int
      /\ JMP_LIMIT \in Nat /\ JMP_LIMIT > 0
  BY <1>1, <1>2, Weights DEF Fields
<1>4. Encode(line, labels, constants) % JMP_LIMIT = SecondPart(line)
  BY <1>3, Division
<1>. QED
  BY <1>1, <1>4 DEF ARG_JMP_VALUE

(* An accepted line is said by its word.                                   *)
LEMMA LineIsSaid ==
  ASSUME TablesFit, NEW line, Accepted(line), Sayable(line),
         NEW w, w = Encode(line, labels, constants)
  PROVE  Says(line, w)
<1> DEFINE arg == Last(line.args)
<1> HIDE DEF arg
<1>1. ~ Negative(line) /\ line.op \in 0 .. 31
  <2>1. line.op \in 0 .. 58 /\ line.op < 32
    BY AcceptedLine DEF Sayable, MAX_OPCODES
  <2>2. ~ Negative(line)
    <3>1. SUFFICES ASSUME Negative(line) PROVE FALSE
      OBVIOUS
    <3>2. parseImmediateNumber(Last(line.args)) \in Instruction
      BY <3>1, SecondPartType
    <3>. QED  BY <3>1, <3>2 DEF Negative, Sayable, Instruction
  <2>. QED  BY <2>1, <2>2
<1>2. PICK f \in 0 .. 31, m \in -32 .. 31 :
        /\ w = Fields(m, f, SecondPart(line))
        /\ line.op < 32 => m = line.op
        /\ Len(line.args) = 2 => f % 16 = line.args[1].reg /\ (f >= 16 <=> line.args[1].kind = "addr")
  BY <1>1, WordOfParts
<1>3. SecondPart(line) \in 0 .. ARG1_SHIFT - 1
  BY <1>1, SecondPartType
<1>4. OPCODE(w) = line.op /\ ARG1_VALUE(w) = f % 16 /\ (IS_ARG1_ADDR(w) <=> f >= 16)
  <2>1. w = Fields(line.op, f, SecondPart(line))
    BY <1>1, <1>2
  <2>2. line.op \in -32 .. 31
    BY <1>1
  <2>3. OPCODE(w) = line.op
    BY <1>3, <2>1, <2>2, FieldsReadBack
  <2>4. ARG1_VALUE(w) = f % 16
    BY <1>3, <2>1, <2>2, FieldsReadBack
  <2>5. IS_ARG1_ADDR(w) <=> f >= 16
    BY <1>3, <2>1, <2>2, FieldsReadBack
  <2>. QED  BY <2>3, <2>4, <2>5
<1>5. ASSUME line.args # <<>>, ~ Jumps(line) PROVE SaysArg2(arg, w)
  <2>1. /\ ARG2_VALUE(w) = Operand(arg)
        /\ IS_ARG2_REG(w) <=> (Mode(arg) >= 2)
        /\ IS_ARG2_IMM(w) <=> (Mode(arg) \in {1, 3})
        /\ IS_ARG2_ADDR(w) <=> (Mode(arg) \in {1, 3})
    BY <1>1, <1>5, SecondArgumentIsSaid DEF arg
  <2>2. IsArgument(arg) /\ ~ parseArg2Rejected(arg, labels, constants)
    BY <1>5, AcceptedLine DEF arg
  <2>3. CASE arg.kind \in {"reg", "addr"} /\ arg.reg >= 0
    <3>1. Mode(arg) = (IF arg.kind = "addr" THEN 3 ELSE 2) /\ Operand(arg) = arg.reg
      BY <2>3 DEF Mode, Operand
    <3>2. IS_ARG2_REG(w) /\ (IS_ARG2_ADDR(w) <=> arg.kind = "addr")
      BY <2>1, <3>1
    <3>3. IS_ARG2_ADDR(w) = (arg.kind = "addr")
      BY <3>2 DEF IS_ARG2_ADDR
    <3>. QED  BY <2>1, <2>3, <3>1, <3>2, <3>3 DEF SaysArg2
  <2>4. CASE arg.kind \in {"reg", "addr"} /\ ~ (arg.reg >= 0)
    BY <2>4 DEF SaysArg2
  <2>5. CASE arg.kind \in {"imm", "label"}
    <3>1. Mode(arg) = 1 /\ (arg.kind = "imm" => Operand(arg) = parseImmediateNumber(arg))
      BY <2>5 DEF Mode, Operand
    <3>2. ~ IS_ARG2_REG(w) /\ IS_ARG2_IMM(w)
      BY <2>1, <3>1
    <3>. QED  BY <2>1, <2>5, <3>1, <3>2 DEF SaysArg2
  <2>6. CASE arg.kind = "const"
    <3>1. Defined(arg.name, constants)
      BY <2>2, <2>6 DEF parseArg2Rejected
    <3>2. /\ FirstIndex(arg.name, constants) \in DOMAIN constants
          /\ constants[FirstIndex(arg.name, constants)].name = arg.name
      BY <3>1, FirstIndexIsFirst DEF TablesFit
    <3>3. FirstIndex(arg.name, constants) \in Int
      BY <3>2 DEF TablesFit, IsSequence
    <3>4. Operand(arg) + 1 = FirstIndex(arg.name, constants)
      BY <2>6, <3>3 DEF Operand, findConstantIndex
    <3>5. Mode(arg) = 0
      BY <2>6 DEF Mode
    <3>6. ~ IS_ARG2_REG(w) /\ ~ IS_ARG2_IMM(w)
      BY <2>1, <3>5
    <3>. QED  BY <2>1, <2>6, <3>2, <3>4, <3>6 DEF SaysArg2
  <2>7. CASE arg.kind = "other"
    BY <2>7 DEF SaysArg2
  <2>. QED  BY <2>2, <2>3, <2>4, <2>5, <2>6, <2>7 DEF IsArgument
<1>6. Len(line.args) = 2 => ARG1_VALUE(w) = line.args[1].reg /\ IS_ARG1_ADDR(w) = (line.args[1].kind = "addr")
  BY <1>2, <1>4 DEF IS_ARG1_ADDR
<1>. QED
  BY <1>4, <1>5, <1>6 DEF Says, arg

(* A line that names a label holds the address of its first definition.    *)
LEMMA LabelIsSaid ==
  ASSUME TablesFit, NEW line, Accepted(line), NamesLabel(line),
         NEW w, w = Encode(line, labels, constants)
  PROVE  /\ Defined(Last(line.args).name, labels)
         /\ (IF Jumps(line) THEN ARG_JMP_VALUE(w) ELSE ARG2_VALUE(w))
              = labels[FirstIndex(Last(line.args).name, labels)].address
<1> DEFINE arg == Last(line.args)
<1>1. arg.kind = "label" /\ line.args # <<>>
  BY DEF NamesLabel
<1>2. CASE Jumps(line)
  <2>1. line.args[1] = arg /\ ~ parseJmpRejected(arg, labels)
    BY <1>1, <1>2, AcceptedLine
  <2>2. ARG_JMP_VALUE(w) = parseJmp(arg, labels)
    BY <1>2, <2>1, JumpIsSaid
  <2>. QED  BY <1>1, <1>2, <2>1, <2>2 DEF parseJmpRejected, parseJmp
<1>3. CASE ~ Jumps(line)
  <2>1. ~ parseArg2Rejected(arg, labels, constants) /\ ~ Negative(line)
    BY <1>1, <1>3, AcceptedLine DEF Negative
  <2>2. ARG2_VALUE(w) = Operand(arg)
    BY <1>1, <1>3, <2>1, SecondArgumentIsSaid
  <2>. QED  BY <1>1, <1>3, <2>1, <2>2 DEF parseArg2Rejected, Operand
<1>. QED
  BY <1>2, <1>3

-----------------------------------------------------------------------------
(* Counting lines.                                                         *)
LinesOf(s, kind, k) == {j \in 1 .. k - 1 : s[j].kind = kind}

LEMMA LinesOfFinite ==
  ASSUME NEW s, NEW kind, NEW k \in Nat, k > 0
  PROVE  /\ IsFiniteSet(LinesOf(s, kind, k))
         /\ Cardinality(LinesOf(s, kind, k)) = LinesAbove(s, kind, k)
         /\ LinesAbove(s, kind, k) \in Nat
         /\ LinesAbove(s, kind, k) <= k - 1
<1>1. IsFiniteSet(1 .. k - 1) /\ Cardinality(1 .. k - 1) = k - 1
  <2>1. 1 \in Int /\ k - 1 \in Int
    OBVIOUS
  <2>2. IsFiniteSet(1 .. k - 1) /\ Cardinality(1 .. k - 1) = IF 1 > k - 1 THEN 0 ELSE (k - 1) - 1 + 1
    BY <2>1, FS_Interval
  <2>. QED  BY <2>2
<1>2. LinesOf(s, kind, k) \in SUBSET (1 .. k - 1)
  BY DEF LinesOf
<1>3. IsFiniteSet(LinesOf(s, kind, k)) /\ Cardinality(LinesOf(s, kind, k)) <= Cardinality(1 .. k - 1)
  BY <1>1, <1>2, FS_Subset
<1>4. Cardinality(LinesOf(s, kind, k)) \in Nat
  BY <1>3, FS_CardinalityType
<1>5. Cardinality(LinesOf(s, kind, k)) = LinesAbove(s, kind, k)
  BY DEF LinesOf, LinesAbove
<1>. QED
  BY <1>1, <1>3, <1>4, <1>5

LEMMA LinesAboveType ==
  ASSUME NEW s, NEW kind, NEW k \in Nat, k > 0
  PROVE  LinesAbove(s, kind, k) \in Nat /\ LinesAbove(s, kind, k) <= k - 1
BY LinesOfFinite

LEMMA LinesAboveFirst == \A s, kind : LinesAbove(s, kind, 1) = 0
<1> SUFFICES ASSUME NEW s, NEW kind PROVE LinesAbove(s, kind, 1) = 0
  OBVIOUS
<1>1. LinesAbove(s, kind, 1) \in Nat /\ LinesAbove(s, kind, 1) <= 1 - 1
  <2>1. 1 \in Nat /\ 1 > 0
    OBVIOUS
  <2>. QED  BY <2>1, LinesAboveType, Zenon
<1>. QED
  BY <1>1

LEMMA LinesAboveNext ==
  ASSUME NEW s, NEW kind, NEW k \in Nat, k > 0
  PROVE  LinesAbove(s, kind, k + 1) = LinesAbove(s, kind, k) + (IF s[k].kind = kind THEN 1 ELSE 0)
<1>1. IsFiniteSet(LinesOf(s, kind, k)) /\ k \notin LinesOf(s, kind, k)
  <2>1. k \notin LinesOf(s, kind, k)
    BY DEF LinesOf
  <2>. QED  BY <2>1, LinesOfFinite
<1>2. /\ Cardinality(LinesOf(s, kind, k)) = LinesAbove(s, kind, k)
      /\ Cardinality(LinesOf(s, kind, k + 1)) = LinesAbove(s, kind, k + 1)
  BY DEF LinesOf, LinesAbove
<1>3. CASE s[k].kind = kind
  <2>1. LinesOf(s, kind, k + 1) = LinesOf(s, kind, k) \cup {k}
    BY <1>3 DEF LinesOf
  <2>. QED  BY <1>1, <1>2, <1>3, <2>1, FS_AddElement
<1>4. CASE s[k].kind # kind
  <2>1. LinesOf(s, kind, k + 1) = LinesOf(s, kind, k)
    BY <1>4 DEF LinesOf
  <2>2. LinesAbove(s, kind, k) \in Nat
    BY LinesAboveType
  <2>. QED  BY <1>2, <1>4, <2>1, <2>2
<1>. QED
  BY <1>3, <1>4

LEMMA LinesAboveMonotone ==
  ASSUME NEW s, NEW kind, NEW j \in Nat, j > 0, NEW k \in Nat, j <= k
  PROVE  LinesAbove(s, kind, j) <= LinesAbove(s, kind, k)
<1>1. IsFiniteSet(LinesOf(s, kind, k)) /\ LinesOf(s, kind, j) \in SUBSET LinesOf(s, kind, k)
  <2>1. LinesOf(s, kind, j) \subseteq LinesOf(s, kind, k)
    BY DEF LinesOf
  <2>. QED  BY <2>1, LinesOfFinite
<1>2. Cardinality(LinesOf(s, kind, j)) <= Cardinality(LinesOf(s, kind, k))
  BY <1>1, FS_Subset
<1>. QED
  BY <1>2, LinesOfFinite

LEMMA LinesAboveStrict ==
  ASSUME NEW s, NEW kind, NEW j \in Nat, j > 0, NEW k \in Nat, j < k, s[j].kind = kind
  PROVE  LinesAbove(s, kind, j) < LinesAbove(s, kind, k)
<1>1. LinesAbove(s, kind, j + 1) = LinesAbove(s, kind, j) + 1
  BY LinesAboveNext
<1>2. LinesAbove(s, kind, j + 1) <= LinesAbove(s, kind, k)
  BY LinesAboveMonotone
<1>. QED
  BY <1>1, <1>2, LinesAboveType

-----------------------------------------------------------------------------
(* The inductive invariant: what the passes have done so far.              *)
(* The line and the label that come of the k-th line.                      *)
InstrOf(k) == [line |-> source[k], address |-> LinesAbove(source, "code", k)]
LabelOf(k) == [name |-> source[k].name, address |-> LinesAbove(source, "code", k)]

Position ==
  /\ source \in Sources
  /\ stage \in {Passes[k] : k \in DOMAIN Passes} \cup Failures
  /\ at \in Nat \ {0}
  /\ stage = "parse" => at = Len(instrs) + 1
  /\ stage \in {"labels", "constants", "instructions"} => at <= Len(source) + 1
  /\ stage = "layout" => at = Len(addresses) + 1

InstrsNumbered ==
  /\ IsSequence(instrs) /\ Len(instrs) <= Len(source)
  /\ \A k \in DOMAIN instrs : instrs[k] = InstrOf(k)
  /\ address = LinesAbove(source, "code", Len(instrs) + 1)
  /\ stage # "parse" => Len(instrs) = Len(source)

LabelsRead == CASE stage = "parse" -> 1 [] stage = "labels" -> at [] OTHER -> Len(source) + 1

LabelsListed ==
  /\ IsSequence(labels) /\ Len(labels) = LinesAbove(source, "label", LabelsRead)
  /\ \A j \in 1 .. LabelsRead - 1 : source[j].kind = "label" =>
       labels[LinesAbove(source, "label", j) + 1] = LabelOf(j)
  /\ \A i \in DOMAIN labels : \E j \in 1 .. LabelsRead - 1 :
       source[j].kind = "label" /\ LinesAbove(source, "label", j) = i - 1 /\ labels[i] = LabelOf(j)

IsConstant(constant) ==
  constant.bytes \in Seq(Byte) /\ (constant.kind = "STRING" => Len(constant.bytes) > 0)

ConstantsListed ==
  /\ IsSequence(constants) /\ \A k \in DOMAIN constants : IsConstant(constants[k])
  /\ stage \in {"parse", "labels"} => constants = <<>>
  /\ Len(constants) <= Len(source)
  /\ stage = "constants" => Len(constants) < at

ConstantsStored ==
  /\ ram \in [Cell -> Byte] /\ h \in 0 .. RamSize
  /\ addresses \in Seq(Cell) /\ Len(addresses) <= Len(constants)
  /\ stage \in {"parse", "labels", "constants"} => addresses = <<>>
  /\ PoolIsIntact

CodeRead == IF stage = "assembled" THEN Len(source) + 1 ELSE at

CodeEncoded ==
  /\ words \in Seq(Instruction)
  /\ stage \in {"parse", "labels", "constants", "layout"} => words = <<>>
  /\ stage \in {"instructions", "assembled"} =>
       /\ Len(words) = LinesAbove(source, "code", CodeRead)
       /\ \A k \in 1 .. CodeRead - 1 : source[k].kind = "code" =>
            /\ ~ LineRejected(source[k], labels, constants)
            /\ WordOf(k) = Encode(source[k], labels, constants)

AsmInv ==
  Position /\ InstrsNumbered /\ LabelsListed /\ ConstantsListed /\ ConstantsStored /\ CodeEncoded

-----------------------------------------------------------------------------
(* Sequences and passes.                                                   *)
LEMMA SequenceType ==
  ASSUME NEW s, IsSequence(s)
  PROVE  Len(s) \in Nat /\ DOMAIN s = 1 .. Len(s)
BY DEF IsSequence

LEMMA EmptySequence == IsSequence(<<>>) /\ Len(<<>>) = 0 /\ DOMAIN <<>> = {}
BY DEF IsSequence

LEMMA AppendElement ==
  ASSUME NEW s, IsSequence(s), NEW e
  PROVE  /\ IsSequence(Append(s, e)) /\ Len(Append(s, e)) = Len(s) + 1
         /\ \A k \in DOMAIN s : Append(s, e)[k] = s[k]
         /\ Append(s, e)[Len(s) + 1] = e
<1> DEFINE T == {s[k] : k \in DOMAIN s}
<1>1. s \in Seq(T \cup {e}) /\ e \in T \cup {e}
  BY DEF IsSequence
<1>2. /\ Append(s, e) \in Seq(T \cup {e}) /\ Len(Append(s, e)) = Len(s) + 1
      /\ \A k \in 1 .. Len(s) : Append(s, e)[k] = s[k]
      /\ Append(s, e)[Len(s) + 1] = e
  <2> HIDE DEF T
  <2>. QED  BY <1>1
<1>3. DOMAIN s = 1 .. Len(s) /\ Len(s) \in Nat
  BY SequenceType
<1>4. DOMAIN Append(s, e) = 1 .. Len(s) + 1
  <2> HIDE DEF T
  <2>. QED  BY <1>2, <1>3
<1>5. {Append(s, e)[k] : k \in DOMAIN Append(s, e)} = T \cup {e}
  <2>1. \A k \in 1 .. Len(s) : Append(s, e)[k] = s[k] /\ k \in DOMAIN s
    BY <1>2, <1>3
  <2>2. {Append(s, e)[k] : k \in DOMAIN Append(s, e)} \subseteq T \cup {e}
    BY <1>2, <1>3, <1>4, <2>1
  <2>3. \A x \in T \cup {e} : \E k \in DOMAIN Append(s, e) : x = Append(s, e)[k]
    <3>1. Len(s) + 1 \in DOMAIN Append(s, e) /\ Append(s, e)[Len(s) + 1] = e
      BY <1>2, <1>3, <1>4
    <3>2. ASSUME NEW k \in DOMAIN s PROVE \E i \in DOMAIN Append(s, e) : s[k] = Append(s, e)[i]
      BY <1>2, <1>3, <1>4
    <3>. QED  BY <3>1, <3>2
  <2>. QED  BY <2>2, <2>3
<1>. QED
  BY <1>2, <1>3, <1>5 DEF IsSequence

PassNames == {"parse", "labels", "constants", "layout", "instructions", "assembled"}

LEMMA PassesNamed == {Passes[k] : k \in DOMAIN Passes} = PassNames
<1>1. DOMAIN Passes = 1 .. 6
  BY DEF Passes
<1>. QED
  BY <1>1 DEF Passes, PassNames

LEMMA SourceIsSource ==
  ASSUME Position
  PROVE  /\ IsSource(source) /\ IsSequence(source)
         /\ Len(source) \in Nat /\ Len(source) <= MAX_IMMEDIATE_VALUE /\ DOMAIN source = 1 .. Len(source)
         /\ \A k \in 1 .. Len(source) : IsLine(source[k])
<1>1. IsSource(source)
  BY SourcesAssumption DEF Position
<1>2. IsSequence(source)
  BY <1>1 DEF IsSource
<1>. QED
  BY <1>1, <1>2, SequenceType DEF IsSource

(* The element a pass looks at.                                            *)
LEMMA ParsedLine ==
  ASSUME In("parse")
  PROVE  stage = "parse" /\ at <= Len(source) /\ current = source[at]
BY DEF In, Walked, current

LEMMA WalkedLine ==
  ASSUME Position, InstrsNumbered, NEW pass \in {"labels", "constants", "instructions"}, In(pass)
  PROVE  /\ stage = pass /\ at \in 1 .. Len(source)
         /\ current.line = source[at] /\ current.address = LinesAbove(source, "code", at)
<1>1. stage = pass /\ at <= Len(instrs) /\ current = instrs[at]
  BY DEF In, Walked, current
<1>2. at \in DOMAIN instrs
  BY <1>1, SequenceType DEF Position, InstrsNumbered
<1>. QED
  BY <1>1, <1>2, SequenceType, SourceIsSource DEF InstrsNumbered, InstrOf, Position

LEMMA WalkedConstant ==
  ASSUME In("layout")
  PROVE  stage = "layout" /\ at <= Len(constants) /\ current = constants[at]
BY DEF In, Walked, current

-----------------------------------------------------------------------------
(* The parts of the invariant an action leaves alone.                      *)
LEMMA LabelsUntouched ==
  ASSUME LabelsListed, UNCHANGED <<source, labels>>, LabelsRead' = LabelsRead
  PROVE  LabelsListed'
BY DEF LabelsListed, LabelOf

LEMMA ConstantsUntouched ==
  ASSUME ConstantsListed, UNCHANGED <<source, constants>>,
         stage' \in {"parse", "labels"} => constants = <<>>,
         stage' = "constants" => Len(constants) < at'
  PROVE  ConstantsListed'
BY DEF ConstantsListed, IsConstant

LEMMA StoreUntouched ==
  ASSUME ConstantsStored, UNCHANGED <<constants, addresses, ram, h>>,
         stage' \in {"parse", "labels", "constants"} => addresses = <<>>
  PROVE  ConstantsStored'
BY DEF ConstantsStored, PoolIsIntact

LEMMA NoCodeYet ==
  ASSUME words' = <<>>, stage' \notin {"instructions", "assembled"}
  PROVE  CodeEncoded'
BY DEF CodeEncoded

LEMMA InitInv == AsmInit => AsmInv
<1> SUFFICES ASSUME AsmInit PROVE AsmInv
  OBVIOUS
<1>1. Position
  <2>1. stage \in {Passes[k] : k \in DOMAIN Passes}
    <3>1. stage \in PassNames
      BY DEF AsmInit, PassNames
    <3>. QED  BY <3>1, PassesNamed
  <2>. QED  BY <2>1, EmptySequence DEF AsmInit, Position
<1>2. InstrsNumbered
  BY <1>1, EmptySequence, LinesAboveFirst, SourceIsSource DEF AsmInit, InstrsNumbered
<1>3. LabelsListed
  BY EmptySequence, LinesAboveFirst DEF AsmInit, LabelsListed, LabelsRead
<1>4. ConstantsListed
  BY <1>1, EmptySequence, SourceIsSource DEF AsmInit, ConstantsListed
<1>5. ConstantsStored
  BY EmptySequence, FreshAssumption, RamSizeAssumption DEF AsmInit, ConstantsStored, PoolIsIntact
<1>6. CodeEncoded
  BY DEF AsmInit, CodeEncoded
<1>. QED
  BY <1>1, <1>2, <1>3, <1>4, <1>5, <1>6 DEF AsmInv

-----------------------------------------------------------------------------
LEMMA ParseLineStep == AsmInv /\ ParseLine => AsmInv'
<1> SUFFICES ASSUME AsmInv, ParseLine PROVE AsmInv'
  OBVIOUS
<1>1. Position /\ InstrsNumbered /\ LabelsListed /\ ConstantsListed /\ ConstantsStored /\ CodeEncoded
  BY DEF AsmInv
<1>2. /\ stage = "parse" /\ at <= Len(source) /\ current = source[at]
      /\ stage' = stage /\ source' = source /\ at' = at + 1
      /\ instrs' = Append(instrs, [line |-> current, address |-> address])
      /\ address' = address + (IF current.kind = "code" THEN 1 ELSE 0)
      /\ UNCHANGED <<labels, constants, addresses, ram, h, words>>
  BY ParsedLine DEF ParseLine
<1>3. IsSequence(instrs) /\ at = Len(instrs) + 1 /\ at \in Nat /\ at > 0 /\ Len(instrs) \in Nat
  BY <1>1, <1>2, SequenceType DEF Position, InstrsNumbered
<1>4. instrs' = Append(instrs, InstrOf(at))
  BY <1>1, <1>2, <1>3 DEF InstrsNumbered, InstrOf
<1>5. Len(instrs') = at /\ IsSequence(instrs')
  BY <1>3, <1>4, AppendElement
<1>6. Position'
  BY <1>1, <1>2, <1>3, <1>5 DEF Position
<1>7. InstrsNumbered'
  <2>1. \A k \in DOMAIN instrs' : instrs'[k] = InstrOf(k)
    <3>1. ASSUME NEW k \in 1 .. at PROVE instrs'[k] = InstrOf(k)
      <4>1. CASE k = at
        BY <1>3, <1>4, <4>1, AppendElement
      <4>2. CASE k # at
        <5>1. k \in DOMAIN instrs
          BY <1>3, <4>2, SequenceType
        <5>2. instrs'[k] = instrs[k]
          BY <1>3, <1>4, <5>1, AppendElement
        <5>. QED  BY <1>1, <5>1, <5>2 DEF InstrsNumbered
      <4>. QED  BY <4>1, <4>2
    <3>. QED  BY <1>5, <3>1, SequenceType
  <2>2. \A k : InstrOf(k)' = InstrOf(k)
    BY <1>2 DEF InstrOf
  <2>3. address' = LinesAbove(source, "code", at + 1)
    BY <1>1, <1>2, <1>3, LinesAboveNext DEF InstrsNumbered
  <2>. QED  BY <1>2, <1>5, <2>1, <2>2, <2>3 DEF InstrsNumbered
<1>8. LabelsListed'
  BY <1>1, <1>2, LabelsUntouched DEF LabelsRead
<1>9. ConstantsListed'
  BY <1>1, <1>2, ConstantsUntouched DEF ConstantsListed
<1>10. ConstantsStored'
  BY <1>1, <1>2, StoreUntouched DEF ConstantsStored
<1>11. CodeEncoded'
  BY <1>1, <1>2, NoCodeYet DEF CodeEncoded
<1>. QED
  BY <1>6, <1>7, <1>8, <1>9, <1>10, <1>11 DEF AsmInv

LEMMA ParseLabelStep == AsmInv /\ ParseLabel => AsmInv'
<1> SUFFICES ASSUME AsmInv, ParseLabel PROVE AsmInv'
  OBVIOUS
<1>1. Position /\ InstrsNumbered /\ LabelsListed /\ ConstantsListed /\ ConstantsStored /\ CodeEncoded
  BY DEF AsmInv
<1>2. /\ stage = "labels" /\ at \in 1 .. Len(source)
      /\ current.line = source[at] /\ current.address = LinesAbove(source, "code", at)
      /\ stage' = stage /\ source' = source /\ at' = at + 1
      /\ UNCHANGED <<address, instrs, constants, addresses, ram, h, words>>
  BY <1>1, WalkedLine DEF ParseLabel
<1>3. labels' = IF source[at].kind = "label" THEN Append(labels, LabelOf(at)) ELSE labels
  BY <1>2 DEF ParseLabel, LabelOf
<1>4. Len(source) \in Nat /\ at \in Nat /\ at > 0 /\ LabelsRead = at /\ LabelsRead' = at + 1
  BY <1>1, <1>2, SourceIsSource DEF LabelsRead
<1>5. Position' /\ InstrsNumbered'
  BY <1>1, <1>2, <1>4 DEF Position, InstrsNumbered, InstrOf
<1>6. LabelsListed'
  <2>1. /\ IsSequence(labels) /\ Len(labels) = LinesAbove(source, "label", at)
        /\ \A j \in 1 .. at - 1 : source[j].kind = "label" =>
             labels[LinesAbove(source, "label", j) + 1] = LabelOf(j)
        /\ \A k \in DOMAIN labels : \E j \in 1 .. at - 1 :
             source[j].kind = "label" /\ LinesAbove(source, "label", j) = k - 1 /\ labels[k] = LabelOf(j)
    BY <1>1, <1>4 DEF LabelsListed
  <2>2. LinesAbove(source, "label", at + 1) = LinesAbove(source, "label", at) + (IF source[at].kind = "label" THEN 1 ELSE 0)
    BY <1>4, LinesAboveNext
  <2>3. \A j \in 1 .. at - 1 : source[j].kind = "label" =>
          LinesAbove(source, "label", j) + 1 \in DOMAIN labels
    <3>1. SUFFICES ASSUME NEW j \in 1 .. at - 1, source[j].kind = "label"
                   PROVE  LinesAbove(source, "label", j) + 1 \in DOMAIN labels
      OBVIOUS
    <3>2. LinesAbove(source, "label", j) < LinesAbove(source, "label", at)
      BY <1>4, <3>1, LinesAboveStrict
    <3>3. LinesAbove(source, "label", j) \in Nat /\ LinesAbove(source, "label", at) \in Nat
      BY <1>4, LinesAboveType
    <3>. QED  BY <2>1, <3>2, <3>3, SequenceType
  <2>4. CASE source[at].kind = "label"
    <3>1. /\ IsSequence(labels') /\ Len(labels') = Len(labels) + 1
          /\ \A k \in DOMAIN labels : labels'[k] = labels[k]
          /\ labels'[Len(labels) + 1] = LabelOf(at)
      BY <1>3, <2>1, <2>4, AppendElement
    <3>2. Len(labels') = LinesAbove(source, "label", at + 1)
      BY <2>1, <2>2, <2>4, <3>1
    <3>3. ASSUME NEW j \in 1 .. at, source[j].kind = "label"
          PROVE  labels'[LinesAbove(source, "label", j) + 1] = LabelOf(j)
      <4>1. CASE j = at
        BY <2>1, <3>1, <4>1
      <4>2. CASE j # at
        BY <1>4, <2>1, <2>3, <3>1, <3>3, <4>2
      <4>. QED  BY <4>1, <4>2
    <3>4. ASSUME NEW k \in DOMAIN labels'
          PROVE  \E j \in 1 .. at : /\ source[j].kind = "label" /\ LinesAbove(source, "label", j) = k - 1
                                    /\ labels'[k] = LabelOf(j)
      <4>1. k \in 1 .. Len(labels) + 1 /\ Len(labels) \in Nat
        BY <2>1, <3>1, SequenceType
      <4>2. CASE k = Len(labels) + 1
        BY <1>4, <2>1, <2>4, <3>1, <4>1, <4>2
      <4>3. CASE k \in DOMAIN labels
        <5>1. PICK j \in 1 .. at - 1 : /\ source[j].kind = "label" /\ LinesAbove(source, "label", j) = k - 1
                                       /\ labels[k] = LabelOf(j)
          BY <2>1, <4>3
        <5>. QED  BY <1>4, <3>1, <4>3, <5>1
      <4>. QED  BY <2>1, <4>1, <4>2, <4>3, SequenceType
    <3>. QED  BY <1>2, <1>4, <3>1, <3>2, <3>3, <3>4 DEF LabelsListed, LabelOf
  <2>5. CASE source[at].kind # "label"
    <3>1. labels' = labels
      BY <1>3, <2>5
    <3>2. LinesAbove(source, "label", at + 1) = LinesAbove(source, "label", at)
      BY <1>4, <2>2, <2>5, LinesAboveType
    <3>3. ASSUME NEW j \in 1 .. at, source[j].kind = "label"
          PROVE  labels[LinesAbove(source, "label", j) + 1] = LabelOf(j)
      BY <1>4, <2>1, <2>5, <3>3
    <3>4. ASSUME NEW k \in DOMAIN labels
          PROVE  \E j \in 1 .. at : /\ source[j].kind = "label" /\ LinesAbove(source, "label", j) = k - 1
                                    /\ labels[k] = LabelOf(j)
      BY <1>4, <2>1
    <3>. QED  BY <1>2, <1>4, <2>1, <3>1, <3>2, <3>3, <3>4 DEF LabelsListed, LabelOf
  <2>. QED  BY <2>4, <2>5
<1>7. ConstantsListed'
  BY <1>1, <1>2, ConstantsUntouched DEF ConstantsListed
<1>8. ConstantsStored'
  BY <1>1, <1>2, StoreUntouched DEF ConstantsStored
<1>9. CodeEncoded'
  BY <1>1, <1>2, NoCodeYet DEF CodeEncoded
<1>. QED
  BY <1>5, <1>6, <1>7, <1>8, <1>9 DEF AsmInv

-----------------------------------------------------------------------------
(* parseConstant and parseConstants.                                       *)
LEMMA NumberIsByteOrWord ==
  ASSUME NEW n \in Int
  PROVE  n % ByteSize \in Byte /\ n % WordSize \in Word /\ Saturated(n) \in Int
<1>1. Saturated(n) \in Int
  BY WordSizeType DEF Saturated
<1>. QED
  BY <1>1, RemainderType

LEMMA ParsedConstant ==
  ASSUME NEW name, NEW value, IsConstantValue(value), value.form \in {"string", "int", "float"},
         NEW constant \in parseConstant(name, value)
  PROVE  IsConstant(constant)
<1>1. CASE value.form = "string"
  <2> DEFINE kept(g) == IF g = 0 THEN <<>> ELSE <<g>>
             record(g) == [name |-> name, kind |-> "STRING", bytes |-> value.chars \o kept(g) \o <<0>>]
  <2>0. parseConstant(name, value) = {record(g) : g \in FreshBytes}
    BY <1>1, Zenon DEF parseConstant
  <2>1. PICK g \in FreshBytes : constant = record(g)
    BY <2>0
  <2>2. value.chars \in Seq(Byte) /\ g \in Byte /\ 0 \in Byte
    BY <1>1, FreshBytesAssumption, ByteSizeType DEF IsConstantValue, Byte
  <2>3. kept(g) \in Seq(Byte) /\ <<0>> \in Seq(Byte) /\ Len(<<0>>) = 1
    BY <2>2
  <2>4. constant.kind = "STRING" /\ constant.bytes = value.chars \o kept(g) \o <<0>>
    BY <2>1
  <2>5. constant.bytes \in Seq(Byte) /\ Len(constant.bytes) > 0
    <3> HIDE DEF kept
    <3>1. value.chars \o kept(g) \in Seq(Byte) /\ Len(value.chars \o kept(g)) \in Nat
      BY <2>2, <2>3
    <3>. QED  BY <2>3, <2>4, <3>1
  <2>. QED  BY <2>4, <2>5 DEF IsConstant
<1>2. CASE value.form = "float"
  <2>1. constant.kind = "FLOAT" /\ constant.bytes = WordBytes(value.word)
    BY <1>2 DEF parseConstant
  <2>2. value.word \in Word
    BY <1>2 DEF IsConstantValue
  <2>. QED  BY <2>1, <2>2, WordBytesType DEF IsConstant
<1>3. CASE value.form = "int"
  <2>1. value.n \in Int
    BY <1>3 DEF IsConstantValue
  <2>2. Saturated(value.n) \in Int
    BY <2>1, NumberIsByteOrWord
  <2>3. \/ constant.kind = "INT8" /\ constant.bytes = <<Saturated(value.n) % ByteSize>>
        \/ constant.kind = "INT32" /\ constant.bytes = WordBytes(Saturated(value.n) % WordSize)
    BY <1>3 DEF parseConstant
  <2>4. <<Saturated(value.n) % ByteSize>> \in Seq(Byte)
    BY <2>2, NumberIsByteOrWord
  <2>5. WordBytes(Saturated(value.n) % WordSize) \in Seq(Byte)
    BY <2>2, NumberIsByteOrWord, WordBytesType
  <2>. QED  BY <2>3, <2>4, <2>5 DEF IsConstant
<1>. QED
  BY <1>1, <1>2, <1>3

LEMMA ParseConstantStep == AsmInv /\ ParseConstant => AsmInv'
<1> SUFFICES ASSUME AsmInv, ParseConstant PROVE AsmInv'
  OBVIOUS
<1>1. Position /\ InstrsNumbered /\ LabelsListed /\ ConstantsListed /\ ConstantsStored /\ CodeEncoded
  BY DEF AsmInv
<1>2. /\ stage = "constants" /\ at \in 1 .. Len(source) /\ current.line = source[at]
      /\ stage' = stage /\ source' = source /\ at' = at + 1
      /\ UNCHANGED <<address, instrs, labels, addresses, ram, h, words>>
  BY <1>1, WalkedLine DEF ParseConstant
<1>3. PICK constant \in parseConstant(source[at].name, source[at].value) : constants' = Append(constants, constant)
  BY <1>2 DEF ParseConstant
<1>4. IsConstant(constant)
  <2>1. IsLine(source[at]) /\ source[at].kind = "constant" /\ source[at].value.form \in {"string", "int", "float"}
    BY <1>1, <1>2, SourceIsSource DEF ParseConstant
  <2>. QED  BY <1>3, <2>1, ParsedConstant DEF IsLine
<1>5. Len(source) \in Nat /\ at \in Nat /\ at > 0
  BY <1>1, <1>2, SourceIsSource
<1>6. Position' /\ InstrsNumbered'
  BY <1>1, <1>2, <1>5 DEF Position, InstrsNumbered, InstrOf
<1>7. LabelsListed'
  BY <1>1, <1>2, LabelsUntouched DEF LabelsRead
<1>8. ConstantsListed'
  <2>1. IsSequence(constants) /\ Len(constants) < at /\ \A k \in DOMAIN constants : IsConstant(constants[k])
    BY <1>1, <1>2 DEF ConstantsListed
  <2>2. /\ IsSequence(constants') /\ Len(constants') = Len(constants) + 1
        /\ \A k \in DOMAIN constants : constants'[k] = constants[k]
        /\ constants'[Len(constants) + 1] = constant
    BY <1>3, <2>1, AppendElement
  <2>3. Len(constants) \in Nat /\ DOMAIN constants = 1 .. Len(constants) /\ DOMAIN constants' = 1 .. Len(constants) + 1
    BY <2>1, <2>2, SequenceType
  <2>4. ASSUME NEW k \in DOMAIN constants' PROVE IsConstant(constants'[k])
    <3>1. CASE k = Len(constants) + 1
      BY <1>4, <2>2, <3>1
    <3>2. CASE k \in DOMAIN constants
      BY <2>1, <2>2, <3>2
    <3>. QED  BY <2>3, <3>1, <3>2
  <2>. QED  BY <1>2, <1>5, <2>1, <2>2, <2>3, <2>4 DEF ConstantsListed, IsConstant
<1>9. ConstantsStored'
  <2>1. addresses = <<>> /\ DOMAIN addresses = {} /\ Len(addresses) = 0
    BY <1>1, <1>2, EmptySequence DEF ConstantsStored
  <2>2. PoolIsIntact'
    BY <1>2, <2>1 DEF PoolIsIntact
  <2>3. Len(constants') \in Nat
    BY <1>8, SequenceType DEF ConstantsListed
  <2>. QED  BY <1>1, <1>2, <2>1, <2>2, <2>3 DEF ConstantsStored
<1>10. CodeEncoded'
  BY <1>1, <1>2, NoCodeYet DEF CodeEncoded
<1>. QED
  BY <1>6, <1>7, <1>8, <1>9, <1>10 DEF AsmInv

-----------------------------------------------------------------------------
(* The process may end in any pass behind the one that lists the labels.   *)
LEMMA FailStep ==
  ASSUME NEW reason \in Failures, AsmInv, stage \in {"constants", "layout", "instructions"}, Fail(reason)
  PROVE  AsmInv'
<1>1. Position /\ InstrsNumbered /\ LabelsListed /\ ConstantsListed /\ ConstantsStored /\ CodeEncoded
  BY DEF AsmInv
<1>2. /\ stage' = reason
      /\ UNCHANGED <<source, at, address, instrs, labels, constants, addresses, ram, h, words>>
      /\ reason \notin PassNames
  BY DEF Fail, Failures, PassNames
<1>3. Position' /\ InstrsNumbered'
  BY <1>1, <1>2 DEF Position, InstrsNumbered, InstrOf, PassNames
<1>4. LabelsListed'
  <2>1. LabelsRead' = LabelsRead
    BY <1>2 DEF LabelsRead, PassNames
  <2>. QED  BY <1>1, <1>2, <2>1, LabelsUntouched
<1>5. ConstantsListed'
  BY <1>1, <1>2, ConstantsUntouched DEF PassNames
<1>6. ConstantsStored'
  BY <1>1, <1>2, StoreUntouched DEF PassNames
<1>7. CodeEncoded'
  BY <1>1, <1>2 DEF CodeEncoded, PassNames
<1>. QED
  BY <1>3, <1>4, <1>5, <1>6, <1>7 DEF AsmInv

LEMMA RejectConstantStep == AsmInv /\ RejectConstant => AsmInv'
<1> SUFFICES ASSUME AsmInv, RejectConstant PROVE AsmInv'
  OBVIOUS
<1>1. stage = "constants"
  BY DEF RejectConstant, In
<1>2. PICK reason \in Failures : Fail(reason)
  BY DEF RejectConstant, Failures
<1>. QED
  BY <1>1, <1>2, FailStep

LEMMA RejectInstructionStep == AsmInv /\ RejectInstruction => AsmInv'
<1> SUFFICES ASSUME AsmInv, RejectInstruction PROVE AsmInv'
  OBVIOUS
<1>1. stage = "instructions"
  BY DEF RejectInstruction, In
<1>2. PICK reason \in Failures : Fail(reason)
  BY DEF RejectInstruction, Failures
<1>. QED
  BY <1>1, <1>2, FailStep

LEMMA SkipLineStep == AsmInv /\ SkipLine => AsmInv'
<1> SUFFICES ASSUME AsmInv, SkipLine PROVE AsmInv'
  OBVIOUS
<1>1. Position /\ InstrsNumbered /\ LabelsListed /\ ConstantsListed /\ ConstantsStored /\ CodeEncoded
  BY DEF AsmInv
<1>2. /\ stage \in {"constants", "instructions"} /\ at \in 1 .. Len(source)
      /\ current.line = source[at]
      /\ stage = "instructions" => source[at].kind # "code"
  <2>1. CASE In("constants")
    BY <1>1, <2>1, WalkedLine
  <2>2. CASE In("instructions") /\ current.line.kind # "code"
    BY <1>1, <2>2, WalkedLine
  <2>. QED  BY <2>1, <2>2 DEF SkipLine
<1>3. /\ stage' = stage /\ source' = source /\ at' = at + 1
      /\ UNCHANGED <<address, instrs, labels, constants, addresses, ram, h, words>>
  BY DEF SkipLine
<1>4. Len(source) \in Nat /\ at \in Nat /\ at > 0
  BY <1>1, <1>2, SourceIsSource
<1>5. Position' /\ InstrsNumbered'
  BY <1>1, <1>2, <1>3, <1>4 DEF Position, InstrsNumbered, InstrOf
<1>6. LabelsListed'
  BY <1>1, <1>2, <1>3, LabelsUntouched DEF LabelsRead
<1>7. ConstantsListed'
  <2>1. Len(constants) \in Nat
    BY <1>1, SequenceType DEF ConstantsListed
  <2>. QED  BY <1>1, <1>2, <1>3, <1>4, <2>1, ConstantsUntouched DEF ConstantsListed
<1>8. ConstantsStored'
  BY <1>1, <1>3, StoreUntouched DEF ConstantsStored
<1>9. CodeEncoded'
  <2>1. CASE stage = "constants"
    BY <1>1, <1>3, <2>1, NoCodeYet DEF CodeEncoded
  <2>2. CASE stage = "instructions"
    <3>1. CodeRead = at /\ CodeRead' = at + 1
      BY <1>3, <2>2 DEF CodeRead
    <3>2. LinesAbove(source, "code", at + 1) = LinesAbove(source, "code", at)
      <4>1. LinesAbove(source, "code", at) \in Nat
        BY <1>4, LinesAboveType
      <4>2. LinesAbove(source, "code", at + 1)
              = LinesAbove(source, "code", at) + (IF source[at].kind = "code" THEN 1 ELSE 0)
        BY <1>4, LinesAboveNext
      <4>. QED  BY <1>2, <2>2, <4>1, <4>2
    <3>3. ASSUME NEW k \in 1 .. at, source[k].kind = "code"
          PROVE  ~ LineRejected(source[k], labels, constants) /\ WordOf(k) = Encode(source[k], labels, constants)
      <4>1. k \in 1 .. at - 1
        BY <1>2, <1>4, <2>2, <3>3
      <4>. QED  BY <1>1, <2>2, <3>1, <3>3, <4>1 DEF CodeEncoded
    <3>. QED  BY <1>1, <1>3, <1>4, <2>2, <3>1, <3>2, <3>3 DEF CodeEncoded, WordOf
  <2>. QED  BY <1>2, <2>1, <2>2
<1>. QED
  BY <1>5, <1>6, <1>7, <1>8, <1>9 DEF AsmInv

-----------------------------------------------------------------------------
(* A constant is stored behind the ones before it, and inside the RAM.     *)
LEMMA StoreConstantStep == AsmInv /\ StoreConstant => AsmInv'
<1> SUFFICES ASSUME AsmInv, StoreConstant PROVE AsmInv'
  OBVIOUS
<1>1. Position /\ InstrsNumbered /\ LabelsListed /\ ConstantsListed /\ ConstantsStored /\ CodeEncoded
  BY DEF AsmInv
<1> DEFINE bytes == current.bytes
           checked == Checked(current)
<1>2. stage = "layout" /\ at <= Len(constants) /\ current = constants[at]
  BY WalkedConstant DEF StoreConstant
<1>3. CASE Fail("access_violation")
  BY <1>2, <1>3, FailStep DEF Failures
<1>4. CASE ~ Fail("access_violation")
  <2>1. /\ CHECK_RANGE(h, checked)
        /\ addresses' = Append(addresses, h)
        /\ ram' = StoreBytes(ram, h, bytes)
        /\ h' = h + Len(bytes)
        /\ at' = at + 1
        /\ UNCHANGED <<source, stage, address, instrs, labels, constants, words>>
    BY <1>4 DEF StoreConstant
  <2>2. at = Len(addresses) + 1 /\ at \in Nat /\ at > 0 /\ Len(addresses) \in Nat /\ addresses \in Seq(Cell)
    BY <1>1, <1>2 DEF Position, ConstantsStored
  <2>3. IsSequence(constants) /\ at \in DOMAIN constants
    BY <1>1, <1>2, <2>2, SequenceType DEF ConstantsListed
  <2>4. bytes \in Seq(Byte) /\ (current.kind = "STRING" => Len(bytes) > 0)
    BY <1>1, <1>2, <2>3 DEF ConstantsListed, IsConstant
  <2> HIDE DEF bytes
  <2>5. /\ h \in Nat /\ Len(bytes) \in Nat /\ h + Len(bytes) <= RamSize /\ h < RamSize
        /\ RamSize \in Nat
    <3>1. checked \in Nat /\ Len(bytes) <= checked + 1 /\ Len(bytes) \in Nat
      BY <2>4 DEF Checked, bytes
    <3>2. h + checked < RamSize /\ h \in Nat
      <4>1. h \in Nat
        BY <1>1, RamSizeAssumption DEF ConstantsStored
      <4>. QED  BY <2>1, <3>1, <4>1, RamSizeAssumption DEF CHECK_RANGE
    <3> HIDE DEF checked
    <3>. QED  BY <3>1, <3>2, RamSizeAssumption
  <2>6. h \in Cell /\ ram' \in [Cell -> Byte] /\ h' \in 0 .. RamSize
    BY <1>1, <2>1, <2>4, <2>5, StoreBytesType, SMTT(30) DEF Cell, ConstantsStored
  <2>7. /\ addresses' \in Seq(Cell) /\ Len(addresses') = at
        /\ DOMAIN addresses' = 1 .. at /\ DOMAIN addresses = 1 .. at - 1
        /\ \A k \in 1 .. at - 1 : addresses'[k] = addresses[k] /\ addresses[k] \in Cell
        /\ addresses'[at] = h
    BY <2>1, <2>2, <2>6
  <2>8. \A c \in Cell : ram'[c] = IF c \in h .. h + Len(bytes) - 1 THEN bytes[c - h + 1] ELSE ram[c]
    BY <2>1 DEF StoreBytes
  <2>9. ASSUME NEW k \in 1 .. at
        PROVE  /\ addresses'[k] + Len(constants[k].bytes) <= h'
               /\ \A j \in DOMAIN constants[k].bytes : ram'[addresses'[k] + j - 1] = constants[k].bytes[j]
    <3>1. CASE k = at
      <4>1. constants[k].bytes = bytes /\ addresses'[k] = h
        BY <1>2, <2>7, <3>1 DEF bytes
      <4>2. ASSUME NEW j \in 1 .. Len(bytes) PROVE ram'[h + j - 1] = bytes[j]
        <5>1. h + j - 1 \in Cell /\ h + j - 1 \in h .. h + Len(bytes) - 1 /\ (h + j - 1) - h + 1 = j
          BY <2>5 DEF Cell
        <5>. QED  BY <2>8, <5>1
      <4>3. DOMAIN constants[k].bytes = 1 .. Len(bytes)
        BY <2>4, <4>1
      <4>4. addresses'[k] + Len(constants[k].bytes) <= h'
        BY <2>1, <2>5, <4>1
      <4>5. \A j \in DOMAIN constants[k].bytes : ram'[addresses'[k] + j - 1] = constants[k].bytes[j]
        BY <4>1, <4>2, <4>3
      <4>. QED  BY <4>4, <4>5
    <3>2. CASE k # at
      <4>1. k \in 1 .. at - 1 /\ k \in DOMAIN constants
        BY <1>2, <2>2, <2>3, <3>2, SequenceType
      <4>2. constants[k].bytes \in Seq(Byte)
        BY <1>1, <4>1 DEF ConstantsListed, IsConstant
      <4>3. /\ addresses[k] + Len(constants[k].bytes) <= h
            /\ \A j \in DOMAIN constants[k].bytes : ram[addresses[k] + j - 1] = constants[k].bytes[j]
        BY <1>1, <2>7, <4>1 DEF ConstantsStored, PoolIsIntact
      <4>4. addresses[k] \in Nat /\ addresses'[k] = addresses[k] /\ Len(constants[k].bytes) \in Nat
        BY <2>7, <4>1, <4>2 DEF Cell
      <4>5. ASSUME NEW j \in 1 .. Len(constants[k].bytes)
            PROVE  ram'[addresses[k] + j - 1] = ram[addresses[k] + j - 1]
        <5>1. addresses[k] + j - 1 \in Cell /\ ~ (addresses[k] + j - 1 \in h .. h + Len(bytes) - 1)
          BY <2>5, <4>3, <4>4, SMTT(30) DEF Cell
        <5>. QED  BY <2>8, <5>1
      <4>6. DOMAIN constants[k].bytes = 1 .. Len(constants[k].bytes)
        BY <4>2
      <4>7. addresses'[k] + Len(constants[k].bytes) <= h'
        BY <2>1, <2>5, <4>3, <4>4, SMTT(30)
      <4>8. \A j \in DOMAIN constants[k].bytes : ram'[addresses'[k] + j - 1] = constants[k].bytes[j]
        BY <4>3, <4>4, <4>5, <4>6
      <4>. QED  BY <4>7, <4>8
    <3>. QED  BY <3>1, <3>2
  <2>10. ConstantsStored'
    <3>1. PoolIsIntact'
      BY <2>1, <2>6, <2>7, <2>9 DEF PoolIsIntact
    <3>2. Len(constants) \in Nat
      BY <2>3, SequenceType
    <3>. QED  BY <1>2, <2>1, <2>6, <2>7, <3>1, <3>2 DEF ConstantsStored
  <2>11. Position' /\ InstrsNumbered'
    BY <1>1, <1>2, <2>1, <2>2, <2>7 DEF Position, InstrsNumbered, InstrOf
  <2>12. LabelsListed'
    BY <1>1, <1>2, <2>1, LabelsUntouched DEF LabelsRead
  <2>13. ConstantsListed'
    BY <1>1, <1>2, <2>1, ConstantsUntouched
  <2>14. CodeEncoded'
    BY <1>1, <1>2, <2>1, NoCodeYet DEF CodeEncoded
  <2>. QED  BY <2>10, <2>11, <2>12, <2>13, <2>14 DEF AsmInv
<1>. QED
  BY <1>3, <1>4

-----------------------------------------------------------------------------
(* parseInstructions.                                                      *)
LEMMA InvTablesFit == AsmInv => TablesFit
<1> SUFFICES ASSUME AsmInv PROVE TablesFit
  OBVIOUS
<1>1. Position /\ LabelsListed /\ ConstantsListed
  BY DEF AsmInv
<1>2. Len(source) \in Nat /\ Len(source) <= MAX_IMMEDIATE_VALUE
  BY <1>1, SourceIsSource
<1>3. LabelsRead \in Nat /\ LabelsRead <= Len(source) + 1
  BY <1>1, <1>2 DEF LabelsRead, Position
<1>4. ASSUME NEW k \in DOMAIN labels PROVE labels[k].address \in 0 .. MAX_IMMEDIATE_VALUE
  <2>1. PICK j \in 1 .. LabelsRead - 1 : labels[k] = LabelOf(j)
    BY <1>1 DEF LabelsListed
  <2>2. j \in Nat /\ j > 0 /\ j <= Len(source)
    BY <1>2, <1>3
  <2>3. LinesAbove(source, "code", j) \in Nat /\ LinesAbove(source, "code", j) <= j - 1
    BY <2>2, LinesAboveType
  <2>. QED  BY <1>2, <2>1, <2>2, <2>3, Weights DEF LabelOf
<1>5. Len(constants) \in Nat /\ Len(constants) <= Len(source)
  BY <1>1, SequenceType DEF ConstantsListed
<1>. QED
  BY <1>1, <1>2, <1>4, <1>5, Weights DEF TablesFit, LabelsListed, ConstantsListed

LEMMA ParseInstructionStep == AsmInv /\ ParseInstruction => AsmInv'
<1> SUFFICES ASSUME AsmInv, ParseInstruction PROVE AsmInv'
  OBVIOUS
<1>1. Position /\ InstrsNumbered /\ LabelsListed /\ ConstantsListed /\ ConstantsStored /\ CodeEncoded
  BY DEF AsmInv
<1>2. stage = "instructions" /\ at \in 1 .. Len(source) /\ current.line = source[at]
  BY <1>1, WalkedLine DEF ParseInstruction
<1> DEFINE word == Encode(source[at], labels, constants)
<1>3. /\ source[at].kind = "code" /\ ~ LineRejected(source[at], labels, constants)
      /\ words' = Append(words, word) /\ at' = at + 1
      /\ UNCHANGED <<source, stage, address, instrs, labels, constants, addresses, ram, h>>
  BY <1>2 DEF ParseInstruction
<1>4. Len(source) \in Nat /\ at \in Nat /\ at > 0
  BY <1>1, <1>2, SourceIsSource
<1>5. word \in Instruction
  <2>1. Accepted(source[at])
    BY <1>1, <1>2, <1>3, SourceIsSource DEF Accepted
  <2>. QED  BY <2>1, InvTablesFit, EncodeType
<1> HIDE DEF word
<1>6. Position' /\ InstrsNumbered'
  BY <1>1, <1>2, <1>3, <1>4 DEF Position, InstrsNumbered, InstrOf
<1>7. LabelsListed'
  BY <1>1, <1>2, <1>3, LabelsUntouched DEF LabelsRead
<1>8. ConstantsListed'
  BY <1>1, <1>2, <1>3, ConstantsUntouched
<1>9. ConstantsStored'
  BY <1>1, <1>2, <1>3, StoreUntouched
<1>10. CodeEncoded'
  <2>1. CodeRead = at /\ CodeRead' = at + 1
    BY <1>2, <1>3 DEF CodeRead
  <2>2. /\ words \in Seq(Instruction) /\ Len(words) = LinesAbove(source, "code", at)
        /\ \A k \in 1 .. at - 1 : source[k].kind = "code" =>
             /\ ~ LineRejected(source[k], labels, constants)
             /\ words[LinesAbove(source, "code", k) + 1] = Encode(source[k], labels, constants)
    BY <1>1, <1>2, <2>1 DEF CodeEncoded, WordOf
  <2>3. /\ words' \in Seq(Instruction) /\ Len(words') = Len(words) + 1
        /\ \A k \in 1 .. Len(words) : words'[k] = words[k]
        /\ words'[Len(words) + 1] = word
    BY <1>3, <1>5, <2>2
  <2>4. LinesAbove(source, "code", at + 1) = LinesAbove(source, "code", at) + 1
    BY <1>3, <1>4, LinesAboveNext
  <2>5. ASSUME NEW k \in 1 .. at, source[k].kind = "code"
        PROVE  /\ ~ LineRejected(source[k], labels, constants)
               /\ words'[LinesAbove(source, "code", k) + 1] = Encode(source[k], labels, constants)
    <3>1. CASE k = at
      BY <1>3, <2>2, <2>3, <3>1 DEF word
    <3>2. CASE k # at
      <4>1. k \in 1 .. at - 1 /\ k \in Nat /\ k > 0 /\ k < at
        BY <1>4, <3>2
      <4>2. LinesAbove(source, "code", k) < LinesAbove(source, "code", at)
        BY <1>4, <2>5, <4>1, LinesAboveStrict
      <4>3. LinesAbove(source, "code", k) \in Nat /\ LinesAbove(source, "code", at) \in Nat
        BY <1>4, <4>1, LinesAboveType
      <4>4. LinesAbove(source, "code", k) + 1 \in 1 .. Len(words)
        BY <2>2, <4>2, <4>3
      <4>. QED  BY <2>2, <2>3, <2>5, <4>1, <4>4
    <3>. QED  BY <3>1, <3>2
  <2>6. Len(words') = LinesAbove(source, "code", at + 1)
    BY <2>2, <2>3, <2>4
  <2>7. stage' = "instructions" /\ source' = source /\ labels' = labels /\ constants' = constants /\ at + 1 - 1 = at
    BY <1>2, <1>3, <1>4
  <2>8. CodeRead' - 1 = at
    BY <1>4, <2>1
  <2>9. \A k \in 1 .. CodeRead' - 1 : source'[k].kind = "code" =>
          /\ ~ LineRejected(source'[k], labels', constants')
          /\ words'[LinesAbove(source', "code", k) + 1] = Encode(source'[k], labels', constants')
    BY <2>5, <2>7, <2>8
  <2>10. Len(words') = LinesAbove(source', "code", CodeRead')
    BY <2>1, <2>6, <2>7
  <2>. QED  BY <2>3, <2>7, <2>9, <2>10 DEF CodeEncoded, WordOf
<1>. QED
  BY <1>6, <1>7, <1>8, <1>9, <1>10 DEF AsmInv

-----------------------------------------------------------------------------
(* The end of a pass is the beginning of the next one, or, where a wild    *)
(* link is followed, of nothing.                                           *)
LEMMA EndPassCases ==
  ASSUME EndPass
  PROVE  /\ at > Len(Walked) /\ at' = 1
         /\ UNCHANGED <<source, address, instrs, labels, constants, addresses, ram, h, words>>
         /\ \/ stage = "parse" /\ stage' = "labels"
            \/ stage = "labels" /\ stage' = "constants"
            \/ stage = "constants" /\ stage' = "layout"
            \/ stage = "layout" /\ stage' \in {"instructions", "undefined"}
            \/ stage = "instructions" /\ stage' \in {"assembled", "undefined"}
<1>1. /\ at' = 1
      /\ UNCHANGED <<source, address, instrs, labels, constants, addresses, ram, h, words>>
  BY DEF EndPass
<1>2. PICK k \in 1 .. Len(Passes) - 1 :
        /\ stage = Passes[k]
        /\ at > Len(Walked)
        /\ \E link \in (CASE stage = "layout" -> Behind(constants)
                          [] stage = "instructions" -> Behind(labels)
                          [] stage \in {"parse", "labels", "constants"} -> {"null"}) :
             stage' = IF link = "wild" THEN "undefined" ELSE Passes[k + 1]
  BY DEF EndPass
<1>3. k \in 1 .. 5
  BY DEF Passes
<1>4. stage' = "undefined" \/ stage' = Passes[k + 1]
  BY <1>2
<1>5. stage \in {"parse", "labels", "constants"} => stage' = Passes[k + 1]
  <2>1. SUFFICES ASSUME stage \in {"parse", "labels", "constants"} PROVE stage' = Passes[k + 1]
    OBVIOUS
  <2>2. (CASE stage = "layout" -> Behind(constants)
           [] stage = "instructions" -> Behind(labels)
           [] stage \in {"parse", "labels", "constants"} -> {"null"}) = {"null"}
    BY <2>1
  <2>. QED  BY <1>2, <2>2
<1>6. /\ Passes[1] = "parse" /\ Passes[2] = "labels" /\ Passes[3] = "constants"
      /\ Passes[4] = "layout" /\ Passes[5] = "instructions" /\ Passes[6] = "assembled"
  BY DEF Passes
<1>. QED
  BY <1>1, <1>2, <1>3, <1>4, <1>5, <1>6

LEMMA EndPassStep == AsmInv /\ EndPass => AsmInv'
<1> SUFFICES ASSUME AsmInv, EndPass PROVE AsmInv'
  OBVIOUS
<1>1. Position /\ InstrsNumbered /\ LabelsListed /\ ConstantsListed /\ ConstantsStored /\ CodeEncoded
  BY DEF AsmInv
<1>2. /\ at > Len(Walked) /\ at' = 1
      /\ UNCHANGED <<source, address, instrs, labels, constants, addresses, ram, h, words>>
      /\ \/ stage = "parse" /\ stage' = "labels"
         \/ stage = "labels" /\ stage' = "constants"
         \/ stage = "constants" /\ stage' = "layout"
         \/ stage = "layout" /\ stage' \in {"instructions", "undefined"}
         \/ stage = "instructions" /\ stage' \in {"assembled", "undefined"}
  BY EndPassCases
<1>3. Len(source) \in Nat /\ Len(instrs) \in Nat /\ Len(constants) \in Nat /\ Len(constants) <= Len(source)
      /\ Len(instrs) <= Len(source)
  BY <1>1, SourceIsSource, SequenceType DEF InstrsNumbered, ConstantsListed
<1>4. /\ stage = "parse" => Len(instrs) = Len(source)
      /\ stage \in {"labels", "constants", "instructions"} => at = Len(source) + 1
  BY <1>1, <1>2, <1>3 DEF Position, InstrsNumbered, Walked
<1>5. stage' \in {Passes[k] : k \in DOMAIN Passes} \cup Failures
  BY <1>2, PassesNamed DEF PassNames, Failures
<1>6. Position'
  <2>1. stage' = "layout" => addresses' = <<>>
    BY <1>1, <1>2 DEF ConstantsStored
  <2>2. stage' # "parse"
    BY <1>2
  <2>. QED  BY <1>1, <1>2, <1>3, <1>5, <2>1, <2>2, EmptySequence DEF Position
<1>7. InstrsNumbered'
  BY <1>1, <1>2, <1>4 DEF InstrsNumbered, InstrOf
<1>8. LabelsListed'
  <2>1. LabelsRead' = LabelsRead
    BY <1>2, <1>4 DEF LabelsRead
  <2>. QED  BY <1>1, <1>2, <2>1, LabelsUntouched
<1>9. ConstantsListed'
  <2>1. stage' \in {"parse", "labels", "constants"} => constants = <<>>
    BY <1>1, <1>2 DEF ConstantsListed
  <2>. QED  BY <1>1, <1>2, <2>1, ConstantsUntouched, EmptySequence
<1>10. ConstantsStored'
  <2>1. stage' \in {"parse", "labels", "constants"} => addresses = <<>>
    BY <1>1, <1>2 DEF ConstantsStored
  <2>. QED  BY <1>1, <1>2, <2>1, StoreUntouched
<1>11. CodeEncoded'
  <2>1. CASE stage' \in {"labels", "constants", "layout"}
    BY <1>1, <1>2, <2>1, NoCodeYet DEF CodeEncoded
  <2>2. CASE stage' = "undefined"
    BY <1>1, <1>2, <2>2 DEF CodeEncoded
  <2>3. CASE stage' = "instructions"
    <3>1. words' = <<>> /\ CodeRead' = 1
      BY <1>1, <1>2, <2>3 DEF CodeEncoded, CodeRead
    <3>. QED  BY <2>3, <3>1, LinesAboveFirst, EmptySequence DEF CodeEncoded
  <2>4. CASE stage' = "assembled"
    <3>1. stage = "instructions" /\ CodeRead = Len(source) + 1 /\ CodeRead' = Len(source) + 1
      BY <1>2, <1>4, <2>4 DEF CodeRead
    <3>2. \A k : WordOf(k)' = WordOf(k)
      BY <1>2 DEF WordOf
    <3>. QED  BY <1>1, <1>2, <2>4, <3>1, <3>2 DEF CodeEncoded
  <2>. QED  BY <1>2, <2>1, <2>2, <2>3, <2>4
<1>. QED
  BY <1>6, <1>7, <1>8, <1>9, <1>10, <1>11 DEF AsmInv

LEMMA AsmStepInv == AsmInv /\ AsmStep => AsmInv'
BY ParseLineStep, ParseLabelStep, ParseConstantStep, RejectConstantStep, SkipLineStep,
   StoreConstantStep, ParseInstructionStep, RejectInstructionStep, EndPassStep DEF AsmStep

LEMMA StutterInv == AsmInv /\ UNCHANGED asmVars => AsmInv'
<1> SUFFICES ASSUME AsmInv, UNCHANGED asmVars PROVE AsmInv'
  OBVIOUS
<1>1. Position /\ InstrsNumbered /\ LabelsListed /\ ConstantsListed /\ ConstantsStored /\ CodeEncoded
  BY DEF AsmInv
<1>2. UNCHANGED <<source, stage, at, address, instrs, labels, constants, addresses, ram, h, words>>
  BY DEF asmVars
<1>3. Position' /\ InstrsNumbered'
  BY <1>1, <1>2 DEF Position, InstrsNumbered, InstrOf
<1>4. LabelsListed'
  BY <1>1, <1>2, LabelsUntouched DEF LabelsRead
<1>5. ConstantsListed'
  BY <1>1, <1>2 DEF ConstantsListed, IsConstant
<1>6. ConstantsStored'
  BY <1>1, <1>2 DEF ConstantsStored, PoolIsIntact
<1>7. CodeEncoded'
  <2>1. CodeRead' = CodeRead /\ \A k : WordOf(k)' = WordOf(k)
    BY <1>2 DEF CodeRead, WordOf
  <2>. QED  BY <1>1, <1>2, <2>1 DEF CodeEncoded
<1>. QED
  BY <1>3, <1>4, <1>5, <1>6, <1>7 DEF AsmInv

(* At every moment of compile the lists are those of the lines read so     *)
(* far: an instruction and a label with the number of lines of code above  *)
(* it, every constant where the RAM holds it, every line of code encoded   *)
(* with the finished tables.                                               *)
THEOREM AsmInvHolds == AsmSpec => []AsmInv
<1>1. AsmInit => AsmInv
  BY InitInv
<1>2. AsmInv /\ [AsmNext]_asmVars => AsmInv'
  BY AsmStepInv, StutterInv DEF AsmNext, Finished
<1>. QED
  BY <1>1, <1>2, PTL DEF AsmSpec

-----------------------------------------------------------------------------
(* A measure of compile: a turn goes on in its list, ends the pass, or     *)
(* ends the process.                                                       *)
Unfinished == PassNames \ {"assembled"}

LEMMA TurnInBounds ==
  ASSUME AsmInv, stage \in Unfinished
  PROVE  Len(source) \in Nat /\ at \in 1 .. Len(source) + 1 /\ Len(Walked) <= Len(source)
<1>1. Position /\ InstrsNumbered /\ ConstantsListed /\ ConstantsStored
  BY DEF AsmInv
<1>2. Len(source) \in Nat /\ Len(instrs) \in Nat /\ Len(instrs) <= Len(source)
      /\ Len(constants) \in Nat /\ Len(constants) <= Len(source)
      /\ Len(addresses) \in Nat /\ Len(addresses) <= Len(constants)
  BY <1>1, SourceIsSource, SequenceType DEF InstrsNumbered, ConstantsListed, ConstantsStored
<1>3. Walked \in {source, instrs, constants}
  BY DEF Walked, Unfinished, PassNames
<1>4. at \in Nat \ {0} /\ at <= Len(source) + 1
  BY <1>1, <1>2 DEF Position, Unfinished, PassNames
<1>. QED
  BY <1>2, <1>3, <1>4

LEMMA KindsOfTurns ==
  ASSUME AsmStep
  PROVE  \/ /\ stage \in Unfinished /\ at <= Len(Walked)
            /\ stage' = stage /\ at' = at + 1 /\ source' = source
         \/ stage \in Unfinished /\ stage' \in Failures /\ source' = source
         \/ EndPass
<1>1. ASSUME ParseLine \/ ParseLabel \/ ParseConstant \/ SkipLine \/ ParseInstruction
      PROVE  /\ stage \in Unfinished /\ at <= Len(Walked)
             /\ stage' = stage /\ at' = at + 1 /\ source' = source
  BY <1>1 DEF ParseLine, ParseLabel, ParseConstant, SkipLine, ParseInstruction, In, Unfinished, PassNames
<1>2. ASSUME NEW reason \in Failures, Fail(reason) PROVE stage' \in Failures /\ source' = source
  BY <1>2 DEF Fail
<1>3. CASE RejectConstant \/ RejectInstruction
  <2>1. stage \in Unfinished
    BY <1>3 DEF RejectConstant, RejectInstruction, In, Unfinished, PassNames
  <2>2. Fail("rejected") \/ Fail("undefined")
    BY <1>3 DEF RejectConstant, RejectInstruction
  <2>. QED  BY <1>2, <2>1, <2>2 DEF Failures
<1>4. CASE StoreConstant
  <2>1. stage \in Unfinished /\ at <= Len(Walked)
    BY <1>4 DEF StoreConstant, In, Unfinished, PassNames
  <2>2. (stage' = stage /\ at' = at + 1 /\ source' = source) \/ Fail("access_violation")
    BY <1>4 DEF StoreConstant
  <2>. QED  BY <1>2, <2>1, <2>2 DEF Failures
<1>. QED
  BY <1>1, <1>3, <1>4 DEF AsmStep

LEMMA AsmTurnAdvances ==
  ASSUME AsmInv, AsmStep
  PROVE  AsmTurnsLeft' \in 0 .. AsmTurnsLeft - 1
<1> DEFINE n    == Len(source) + 2
           rest == PassesAfter[stage] * n
           here == Len(source) + 2 - at
<1>1. ASSUME stage \in Unfinished PROVE rest \in Nat /\ AsmTurnsLeft = rest + here /\ here >= 1
  <2>1. Len(source) \in Nat /\ at \in 1 .. Len(source) + 1
    BY <1>1, TurnInBounds
  <2>2. PassesAfter[stage] \in 1 .. 5 /\ stage \notin Failures
    BY <1>1 DEF Unfinished, PassNames, PassesAfter, Failures
  <2>3. \A k \in 1 .. 5, m \in Nat : k * m \in Nat
    OBVIOUS
  <2>4. stage \notin Failures => AsmTurnsLeft = rest + here
    BY Zenon DEF AsmTurnsLeft
  <2>5. n \in Nat
    BY <2>1
  <2>6. rest \in Nat
    <3> HIDE DEF n
    <3>. QED  BY <2>2, <2>3, <2>5
  <2>7. here >= 1
    BY <2>1
  <2> HIDE DEF rest, here
  <2>. QED  BY <2>2, <2>4, <2>6, <2>7
<1>2. CASE /\ stage \in Unfinished /\ at <= Len(Walked)
           /\ stage' = stage /\ at' = at + 1 /\ source' = source
  <2>1. Len(source) \in Nat /\ at \in 1 .. Len(source)
    <3>1. Len(Walked) \in Nat
      <4>1. Walked \in {source, instrs, constants}
        BY <1>2 DEF Walked, Unfinished, PassNames
      <4>. QED  BY <4>1, SourceIsSource, SequenceType DEF AsmInv, InstrsNumbered, ConstantsListed
    <3>. QED  BY <1>2, <3>1, TurnInBounds
  <2>2. stage' \notin Failures /\ rest' = rest /\ n' = n
    BY <1>2 DEF Unfinished, PassNames, Failures
  <2>3. stage' \notin Failures => AsmTurnsLeft' = rest' + here'
    BY Zenon DEF AsmTurnsLeft
  <2>4. rest \in Nat /\ AsmTurnsLeft = rest + here
    BY <1>1, <1>2
  <2>5. here' = here - 1 /\ here \in Nat /\ here >= 2
    BY <1>2, <2>1
  <2> HIDE DEF rest, here
  <2>. QED  BY <2>2, <2>3, <2>4, <2>5
<1>3. CASE stage \in Unfinished /\ stage' \in Failures /\ source' = source
  <2>1. AsmTurnsLeft' = 0
    BY <1>3 DEF AsmTurnsLeft
  <2>2. rest \in Nat /\ AsmTurnsLeft = rest + here /\ here >= 1
    BY <1>1, <1>3
  <2>3. here \in Int
    BY <1>3, TurnInBounds
  <2> HIDE DEF rest, here
  <2>. QED  BY <2>1, <2>2, <2>3
<1>4. CASE EndPass
  <2>1. /\ at' = 1 /\ source' = source
        /\ \/ stage = "parse" /\ stage' = "labels"
           \/ stage = "labels" /\ stage' = "constants"
           \/ stage = "constants" /\ stage' = "layout"
           \/ stage = "layout" /\ stage' \in {"instructions", "undefined"}
           \/ stage = "instructions" /\ stage' \in {"assembled", "undefined"}
    BY <1>4, EndPassCases
  <2>2. stage \in Unfinished
    BY <2>1 DEF Unfinished, PassNames
  <2>3. Len(source) \in Nat /\ at \in 1 .. Len(source) + 1
    BY <2>2, TurnInBounds
  <2>4. CASE stage' = "undefined"
    BY <1>3, <2>1, <2>2, <2>4 DEF Failures
  <2>5. CASE stage' # "undefined"
    <3>1. PassesAfter[stage] \in 1 .. 5 /\ (PassesAfter[stage])' = PassesAfter[stage] - 1
      BY <2>1, <2>5 DEF PassesAfter
    <3>2. stage' \notin Failures /\ n' = n /\ n \in Nat
      BY <2>1, <2>3, <2>5 DEF Failures
    <3>3. AsmTurnsLeft' = (PassesAfter[stage])' * n + (n - 1)
      <4>1. stage' \notin Failures => AsmTurnsLeft' = (PassesAfter[stage])' * n' + here'
        BY Zenon DEF AsmTurnsLeft
      <4>2. here' = n - 1
        BY <2>1, <2>3
      <4> HIDE DEF n, here
      <4>. QED  BY <3>2, <4>1, <4>2
    <3>4. AsmTurnsLeft = PassesAfter[stage] * n + here
      BY <1>1, <2>2
    <3>5. \A i \in 1 .. 5, k \in Nat : (i - 1) * k \in Nat /\ i * k = (i - 1) * k + k
      OBVIOUS
    <3> DEFINE one == PassesAfter[stage]
               left == (one - 1) * n
    <3>6. left \in Nat /\ one * n = left + n
      <4> HIDE DEF one, n
      <4>. QED  BY <3>1, <3>2, <3>5 DEF one
    <3>7. AsmTurnsLeft' = left + (n - 1) /\ AsmTurnsLeft = (left + n) + here
      <4> HIDE DEF n, here
      <4>. QED  BY <3>1, <3>3, <3>4, <3>6
    <3>8. here >= 1 /\ here \in Int /\ n - 1 \in Nat
      BY <2>3
    <3> HIDE DEF left, n, here
    <3>. QED  BY <3>2, <3>6, <3>7, <3>8
  <2>. QED  BY <2>4, <2>5
<1>. QED
  BY <1>2, <1>3, <1>4, KindsOfTurns

(* Every turn of compile goes on in the list of its pass, or on to the     *)
(* next pass, and none of the lists is longer than the file: six passes    *)
(* over a file of any length come to an end.                               *)
THEOREM PassesAdvance == AsmSpec => EveryPassAdvances
<1>1. AsmInv /\ [AsmNext]_asmVars => [AsmTurnsLeft' \in 0 .. AsmTurnsLeft - 1]_asmVars
  BY AsmTurnAdvances DEF AsmNext, Finished
<1>. QED
  BY <1>1, AsmInvHolds, PTL DEF AsmSpec, EveryPassAdvances

-----------------------------------------------------------------------------
(* What the runs check follows.                                            *)
LEMMA InvTypeOK == AsmInv => AsmTypeOK
<1> SUFFICES ASSUME AsmInv PROVE AsmTypeOK
  OBVIOUS
<1>1. Position /\ InstrsNumbered /\ LabelsListed /\ ConstantsListed /\ ConstantsStored /\ CodeEncoded
  BY DEF AsmInv
<1>2. Len(source) \in Nat /\ Len(instrs) \in Nat /\ at \in Nat /\ at > 0
  BY <1>1, SourceIsSource, SequenceType DEF InstrsNumbered, Position
<1>3. address = LinesAbove(source, "code", Len(instrs) + 1) /\ address \in Nat
  <2>1. LinesAbove(source, "code", Len(instrs) + 1) \in Nat
    BY <1>2, LinesAboveType
  <2>. QED  BY <1>1, <2>1 DEF InstrsNumbered
<1>4. ASSUME NEW k \in DOMAIN labels PROVE labels[k].address \in 0 .. address
  <2>1. PICK j \in 1 .. LabelsRead - 1 : labels[k] = LabelOf(j)
    BY <1>1 DEF LabelsListed
  <2>2. j \in Nat /\ j > 0 /\ j <= Len(instrs) + 1
    <3>1. LabelsRead \in Nat /\ LabelsRead <= Len(instrs) + 1
      BY <1>1, <1>2 DEF LabelsRead, Position, InstrsNumbered
    <3>. QED  BY <1>2, <3>1
  <2>3. LinesAbove(source, "code", j) \in Nat /\ LinesAbove(source, "code", j) <= address
    BY <1>2, <1>3, <2>2, LinesAboveType, LinesAboveMonotone
  <2>. QED  BY <1>3, <2>1, <2>3 DEF LabelOf
<1>5. \A k \in DOMAIN constants : constants[k].bytes \in Seq(Byte)
  BY <1>1 DEF ConstantsListed, IsConstant
<1>. QED
  BY <1>1, <1>2, <1>3, <1>4, <1>5
     DEF AsmTypeOK, Position, InstrsNumbered, ConstantsStored, CodeEncoded

(* The first entry of a name in the list of labels is the one of the first *)
(* line that defines it.                                                   *)
LEMMA FirstLabelIsFirstLine ==
  ASSUME AsmInv, stage = "assembled", NEW name, Defined(name, labels)
  PROVE  labels[FirstIndex(name, labels)].address = LinesAbove(source, "code", FirstLine("label", name))
<1> DEFINE i == FirstIndex(name, labels)
           Above(k) == LinesAbove(source, "label", k)
           Names(k) == source[k].kind = "label" /\ source[k].name = name
<1>1. Position /\ LabelsListed
  BY DEF AsmInv
<1>2. Len(source) \in Nat /\ DOMAIN source = 1 .. Len(source)
  BY <1>1, SourceIsSource
<1>3. LabelsRead - 1 = Len(source)
  BY <1>2 DEF LabelsRead
<1>4. /\ i \in DOMAIN labels /\ labels[i].name = name
      /\ \A j \in DOMAIN labels : labels[j].name = name => i <= j
  BY <1>1, FirstIndexIsFirst DEF LabelsListed
<1>5. DOMAIN labels = 1 .. Len(labels) /\ Len(labels) \in Nat
  BY <1>1, SequenceType DEF LabelsListed
<1> HIDE DEF i
<1>6. PICK f \in 1 .. Len(source) : source[f].kind = "label" /\ Above(f) = i - 1 /\ labels[i] = LabelOf(f)
  BY <1>1, <1>3, <1>4 DEF LabelsListed
<1>7. f \in Nat /\ f > 0 /\ Names(f)
  BY <1>4, <1>6 DEF LabelOf
<1>8. ASSUME NEW j \in 1 .. f - 1, Names(j) PROVE FALSE
  <2>1. j \in Nat /\ j > 0 /\ j < f /\ j \in 1 .. Len(source)
    BY <1>2, <1>7
  <2>2. Above(j) < Above(f)
    BY <1>7, <1>8, <2>1, LinesAboveStrict
  <2>3. Above(j) \in Nat
    BY <2>1, LinesAboveType
  <2>4. labels[Above(j) + 1] = LabelOf(j)
    BY <1>1, <1>3, <1>8, <2>1 DEF LabelsListed
  <2> HIDE DEF Above
  <2>5. Above(j) + 1 \in DOMAIN labels /\ Above(j) + 1 < i
    BY <1>4, <1>5, <1>6, <2>2, <2>3
  <2>. QED  BY <1>4, <1>5, <1>8, <2>3, <2>4, <2>5 DEF LabelOf
<1>9. FirstLine("label", name) = f
  <2> DEFINE First(k) == Names(k) /\ \A j \in 1 .. k - 1 : ~ Names(j)
  <2>1. f \in DOMAIN source /\ First(f)
    BY <1>2, <1>7, <1>8
  <2>2. ASSUME NEW k \in DOMAIN source, First(k) PROVE k = f
    BY <1>2, <1>7, <2>1, <2>2
  <2>3. FirstLine("label", name) = CHOOSE k \in DOMAIN source : First(k)
    BY DEF FirstLine
  <2> HIDE DEF First
  <2>. QED  BY <2>1, <2>2, <2>3
<1>. QED
  BY <1>6, <1>9 DEF LabelOf, i

(* What parseInstructions made of a line of code.                          *)
LEMMA CodeIsEncoded ==
  ASSUME AsmInv, stage = "assembled", NEW k \in Codes
  PROVE  Accepted(source[k]) /\ WordOf(k) = Encode(source[k], labels, constants)
<1>1. Position /\ CodeEncoded
  BY DEF AsmInv
<1>2. k \in 1 .. Len(source) /\ source[k].kind = "code" /\ IsLine(source[k])
  BY <1>1, SourceIsSource DEF Codes
<1>3. CodeRead - 1 = Len(source)
  BY <1>1, SourceIsSource DEF CodeRead
<1>. QED
  BY <1>1, <1>2, <1>3 DEF CodeEncoded, Accepted

LEMMA InvLabelsSelect == AsmInv => LabelsSelectTheirCode
<1> SUFFICES ASSUME AsmInv, stage = "assembled", NEW k \in Codes, NamesLabel(source[k])
             PROVE  (IF Jumps(source[k]) THEN ARG_JMP_VALUE(WordOf(k)) ELSE ARG2_VALUE(WordOf(k)))
                      = LinesAbove(source, "code", FirstLine("label", Last(source[k].args).name))
  BY DEF LabelsSelectTheirCode
<1>1. TablesFit
  BY InvTablesFit
<1>2. Accepted(source[k]) /\ WordOf(k) = Encode(source[k], labels, constants)
  BY CodeIsEncoded
<1> DEFINE w == WordOf(k)
           name == Last(source[k].args).name
<1>3. w = Encode(source[k], labels, constants)
  BY <1>2
<1> HIDE DEF w
<1>4. /\ Defined(name, labels)
      /\ (IF Jumps(source[k]) THEN ARG_JMP_VALUE(w) ELSE ARG2_VALUE(w)) = labels[FirstIndex(name, labels)].address
  BY <1>1, <1>2, <1>3, LabelIsSaid
<1>5. labels[FirstIndex(name, labels)].address = LinesAbove(source, "code", FirstLine("label", name))
  BY <1>4, FirstLabelIsFirstLine
<1>. QED
  BY <1>4, <1>5 DEF w

LEMMA InvWordsSay == AsmInv => WordsSayTheirLine
<1> SUFFICES ASSUME AsmInv, stage = "assembled"
             PROVE  /\ Len(words) = Cardinality(Codes)
                    /\ \A k \in Codes : Sayable(source[k]) => Says(source[k], WordOf(k))
  BY DEF WordsSayTheirLine
<1>1. Position /\ CodeEncoded /\ TablesFit
  BY InvTablesFit DEF AsmInv
<1>2. Len(words) = Cardinality(Codes)
  <2>1. Len(source) \in Nat /\ DOMAIN source = 1 .. (Len(source) + 1) - 1
    BY <1>1, SourceIsSource
  <2>2. Len(words) = LinesAbove(source, "code", Len(source) + 1)
    BY <1>1 DEF CodeEncoded, CodeRead
  <2>. QED  BY <2>1, <2>2 DEF LinesAbove, Codes
<1>3. ASSUME NEW k \in Codes, Sayable(source[k]) PROVE Says(source[k], WordOf(k))
  <2>1. Accepted(source[k]) /\ WordOf(k) = Encode(source[k], labels, constants)
    BY CodeIsEncoded
  <2>. QED  BY <1>1, <1>3, <2>1, LineIsSaid
<1>. QED
  BY <1>2, <1>3

(* compile keeps its types, whatever it reads: a label's address is never  *)
(* above the counter, every word is an instruction of 32 bits and $h never *)
(* leaves the RAM.                                                         *)
THEOREM AsmTypeCorrect == AsmSpec => []AsmTypeOK
BY AsmInvHolds, InvTypeOK, PTL

(* Every constant stored keeps its bytes for the rest of the assembly,     *)
(* below $h and within the RAM: ramStoreString's unchecked terminator      *)
(* overwrites nothing and never falls behind the last byte.                *)
THEOREM PoolKept == AsmSpec => []PoolIsIntact
<1>1. AsmInv => PoolIsIntact
  BY DEF AsmInv, ConstantsStored
<1>. QED
  BY <1>1, AsmInvHolds, PTL

(* In a program compile returns, every jump to a label and every label     *)
(* moved into a register selects the code below the first line that        *)
(* defines the label.                                                      *)
THEOREM LabelsAreSelected == AsmSpec => []LabelsSelectTheirCode
BY AsmInvHolds, InvLabelsSelect, PTL

(* The macros of bytecode.h read every word of a returned program as the   *)
(* line of code it stands for, and there is one word for each such line.   *)
THEOREM WordsAreSaid == AsmSpec => []WordsSayTheirLine
BY AsmInvHolds, InvWordsSay, PTL

-----------------------------------------------------------------------------
(* What main relies on besides: a second invariant, about the names of the *)
(* constants, about the words, and about why a file is refused.            *)
ConstantsRead ==
  CASE stage = "constants" -> at
    [] stage \in {"layout", "instructions", "assembled"} -> Len(source) + 1
    [] OTHER -> 1

ConstantsNamed ==
  /\ \A j \in 1 .. ConstantsRead - 1 : source[j].kind = "constant" =>
       source[j].value.form \in {"string", "int", "float"} /\ Defined(source[j].name, constants)
  /\ \A k \in DOMAIN constants : \E j \in DOMAIN source :
       source[j].kind = "constant" /\ source[j].name = constants[k].name

ConstantsAddressed ==
  stage \in {"instructions", "assembled"} => Len(addresses) = Len(constants)

WordsHaveCode ==
  stage \in {"instructions", "assembled"} =>
    \A j \in DOMAIN words : \E k \in 1 .. CodeRead - 1 :
      source[k].kind = "code" /\ LinesAbove(source, "code", k) = j - 1

HasString ==
  \E k \in DOMAIN source : source[k].kind = "constant" /\ source[k].value.form \in {"string", "quote"}

EndsExplained ==
  /\ stage = "rejected" => \E k \in DOMAIN source : IllFormed(source[k])
  /\ stage = "undefined" => "wild" \in FreshLinks \/ HasString

AsmLog == ConstantsNamed /\ ConstantsAddressed /\ WordsHaveCode /\ EndsExplained

LEMMA InitLog == AsmInit => AsmLog
BY EmptySequence DEF AsmInit, AsmLog, ConstantsNamed, ConstantsRead, ConstantsAddressed, WordsHaveCode, EndsExplained

(* What an action that does not read a constant or a line of code changes. *)
LEMMA NamesUntouched ==
  ASSUME ConstantsNamed, UNCHANGED <<source, constants>>, ConstantsRead' \in {1, ConstantsRead}
  PROVE  ConstantsNamed'
<1>1. CASE ConstantsRead' = ConstantsRead
  BY <1>1 DEF ConstantsNamed
<1>2. CASE ConstantsRead' = 1
  BY <1>2 DEF ConstantsNamed
<1>. QED
  BY <1>1, <1>2

LEMMA EarlyLog ==
  ASSUME stage' \in {"parse", "labels", "constants", "layout"}
  PROVE  ConstantsAddressed' /\ WordsHaveCode' /\ EndsExplained'
BY DEF ConstantsAddressed, WordsHaveCode, EndsExplained

(* Searching a name in the tables is searching it in the file.             *)
LEMMA NamedDefined ==
  ASSUME NEW kind, NEW name
  PROVE  Defined(name, Named(kind)) <=> \E k \in DOMAIN source : source[k].kind = kind /\ source[k].name = name
BY DEF Defined, Named

LEMMA TablesByName ==
  ASSUME AsmInv, ConstantsNamed, stage \in {"instructions", "assembled"}, NEW name
  PROVE  /\ Defined(name, labels) <=> Defined(name, Named("label"))
         /\ Defined(name, constants) <=> Defined(name, Named("constant"))
<1>1. Position /\ LabelsListed
  BY DEF AsmInv
<1>2. /\ Len(source) \in Nat /\ DOMAIN source = 1 .. Len(source)
      /\ LabelsRead - 1 = Len(source) /\ ConstantsRead - 1 = Len(source)
  BY <1>1, SourceIsSource DEF LabelsRead, ConstantsRead
<1>3. Defined(name, labels) => Defined(name, Named("label"))
  <2>1. ASSUME NEW k \in DOMAIN labels, labels[k].name = name
        PROVE  \E j \in DOMAIN source : source[j].kind = "label" /\ source[j].name = name
    BY <1>1, <1>2, <2>1 DEF LabelsListed, LabelOf
  <2>. QED  BY <2>1, NamedDefined DEF Defined
<1>4. Defined(name, Named("label")) => Defined(name, labels)
  <2> SUFFICES ASSUME NEW j \in 1 .. Len(source), source[j].kind = "label", source[j].name = name
               PROVE  Defined(name, labels)
    BY <1>2, NamedDefined
  <2>1. labels[LinesAbove(source, "label", j) + 1] = LabelOf(j)
    BY <1>1, <1>2 DEF LabelsListed
  <2>2. LinesAbove(source, "label", j) + 1 \in DOMAIN labels
    <3>1. Len(labels) = LinesAbove(source, "label", Len(source) + 1)
      BY <1>1, <1>2 DEF LabelsListed, LabelsRead
    <3>2. LinesAbove(source, "label", j) < LinesAbove(source, "label", Len(source) + 1)
      BY <1>2, LinesAboveStrict
    <3>3. LinesAbove(source, "label", j) \in Nat /\ LinesAbove(source, "label", Len(source) + 1) \in Nat
      BY <1>2, LinesAboveType
    <3>. QED  BY <1>1, <3>1, <3>2, <3>3, SequenceType DEF LabelsListed
  <2>. QED  BY <2>1, <2>2 DEF Defined, LabelOf
<1>5. Defined(name, constants) => Defined(name, Named("constant"))
  <2>1. ASSUME NEW k \in DOMAIN constants, constants[k].name = name
        PROVE  \E j \in DOMAIN source : source[j].kind = "constant" /\ source[j].name = name
    BY <2>1 DEF ConstantsNamed
  <2>. QED  BY <2>1, NamedDefined DEF Defined
<1>6. Defined(name, Named("constant")) => Defined(name, constants)
  <2> SUFFICES ASSUME NEW j \in 1 .. Len(source), source[j].kind = "constant", source[j].name = name
               PROVE  Defined(name, constants)
    BY <1>2, NamedDefined
  <2>. QED  BY <1>2 DEF ConstantsNamed
<1>. QED
  BY <1>3, <1>4, <1>5, <1>6

LEMMA RejectedByName ==
  ASSUME AsmInv, ConstantsNamed, stage \in {"instructions", "assembled"},
         NEW line, IsLine(line), line.kind = "code"
  PROVE  LineRejected(line, labels, constants) <=> LineRejected(line, Named("label"), Named("constant"))
<1>1. CASE line.args = <<>>
  BY <1>1 DEF LineRejected
<1>2. CASE line.args # <<>>
  <2> DEFINE arg == Last(line.args)
  <2>1. IsSequence(line.args) /\ \A k \in DOMAIN line.args : IsArgument(line.args[k])
    BY DEF IsLine
  <2>2. Len(line.args) \in Nat /\ DOMAIN line.args = 1 .. Len(line.args) /\ Len(line.args) > 0
    BY <1>2, <2>1 DEF IsSequence
  <2>3. IsArgument(line.args[1]) /\ IsArgument(arg)
    BY <2>1, <2>2 DEF Last
  <2> HIDE DEF arg
  <2>4. \A name : /\ Defined(name, labels) <=> Defined(name, Named("label"))
                  /\ Defined(name, constants) <=> Defined(name, Named("constant"))
    BY TablesByName
  <2>5. parseArg2Rejected(arg, labels, constants) <=> parseArg2Rejected(arg, Named("label"), Named("constant"))
    BY <2>3, <2>4 DEF IsArgument, parseArg2Rejected
  <2>6. parseJmpRejected(line.args[1], labels) <=> parseJmpRejected(line.args[1], Named("label"))
    BY <2>3, <2>4 DEF IsArgument, parseJmpRejected
  <2>. QED  BY <1>2, <2>5, <2>6 DEF LineRejected, arg
<1>. QED
  BY <1>1, <1>2

(* A program that is assembled has no ill-formed line.                     *)
LEMMA AssembledIsWellFormed ==
  ASSUME AsmInv, AsmLog, stage = "assembled", NEW k \in DOMAIN source
  PROVE  ~ IllFormed(source[k])
<1>1. Position /\ CodeEncoded /\ ConstantsNamed
  BY DEF AsmInv, AsmLog
<1>2. /\ k \in 1 .. Len(source) /\ IsLine(source[k])
      /\ ConstantsRead - 1 = Len(source) /\ CodeRead - 1 = Len(source)
  BY <1>1, SourceIsSource DEF ConstantsRead, CodeRead
<1>3. CASE source[k].kind = "constant"
  <2>1. source[k].value.form \in {"string", "int", "float"}
    BY <1>1, <1>2, <1>3 DEF ConstantsNamed
  <2>. QED  BY <1>3, <2>1 DEF IllFormed
<1>4. CASE source[k].kind = "code"
  <2>1. ~ LineRejected(source[k], labels, constants)
    BY <1>1, <1>2, <1>4 DEF CodeEncoded
  <2>2. ~ LineRejected(source[k], Named("label"), Named("constant"))
    BY <1>1, <1>2, <1>4, <2>1, RejectedByName
  <2>. QED  BY <1>4, <2>2 DEF IllFormed
<1>5. CASE source[k].kind = "label"
  BY <1>5 DEF IllFormed
<1>. QED
  BY <1>2, <1>3, <1>4, <1>5 DEF IsLine

-----------------------------------------------------------------------------
LEMMA ParseConstantLog == AsmInv /\ AsmLog /\ ParseConstant => AsmLog'
<1> SUFFICES ASSUME AsmInv, AsmLog, ParseConstant PROVE AsmLog'
  OBVIOUS
<1>1. Position /\ InstrsNumbered /\ ConstantsListed /\ ConstantsNamed
  BY DEF AsmInv, AsmLog
<1>2. /\ stage = "constants" /\ at \in 1 .. Len(source) /\ current.line = source[at]
      /\ source[at].kind = "constant" /\ source[at].value.form \in {"string", "int", "float"}
      /\ stage' = stage /\ source' = source /\ at' = at + 1
  BY <1>1, WalkedLine DEF ParseConstant
<1>3. PICK constant \in parseConstant(source[at].name, source[at].value) : constants' = Append(constants, constant)
  BY <1>2 DEF ParseConstant
<1>4. constant.name = source[at].name
  <2> DEFINE value == source[at].value
             bytes(g) == value.chars \o (IF g = 0 THEN <<>> ELSE <<g>>) \o <<0>>
             record(g) == [name |-> source[at].name, kind |-> "STRING", bytes |-> bytes(g)]
  <2>1. CASE value.form = "string"
    <3>1. constant \in {record(g) : g \in FreshBytes}
      BY <1>3, <2>1 DEF parseConstant
    <3> HIDE DEF bytes
    <3>2. PICK g \in FreshBytes : constant = record(g)
      BY <3>1
    <3>. QED  BY <3>2
  <2>2. CASE value.form = "float"
    BY <1>3, <2>2 DEF parseConstant
  <2>3. CASE value.form = "int"
    BY <1>3, <2>3 DEF parseConstant
  <2>. QED  BY <1>2, <2>1, <2>2, <2>3
<1>5. /\ IsSequence(constants') /\ Len(constants') = Len(constants) + 1
      /\ \A k \in DOMAIN constants : constants'[k] = constants[k]
      /\ constants'[Len(constants) + 1] = constant
  BY <1>1, <1>3, AppendElement DEF ConstantsListed
<1>6. Len(constants) \in Nat /\ DOMAIN constants = 1 .. Len(constants) /\ DOMAIN constants' = 1 .. Len(constants) + 1
  BY <1>1, <1>5, SequenceType DEF ConstantsListed
<1>7. ConstantsRead = at /\ ConstantsRead' = at + 1 /\ Len(source) \in Nat /\ DOMAIN source = 1 .. Len(source)
  BY <1>1, <1>2, SourceIsSource DEF ConstantsRead
<1>8. ConstantsNamed'
  <2>1. ASSUME NEW j \in 1 .. at, source[j].kind = "constant"
        PROVE  source[j].value.form \in {"string", "int", "float"} /\ Defined(source[j].name, constants')
    <3>1. CASE j = at
      BY <1>2, <1>4, <1>5, <1>6, <3>1, SMTT(30) DEF Defined
    <3>2. CASE j # at
      <4>0. ConstantsRead - 1 = at - 1 /\ j \in 1 .. at - 1
        BY <1>2, <1>7, <3>2
      <4>1. source[j].value.form \in {"string", "int", "float"} /\ Defined(source[j].name, constants)
        BY <1>1, <2>1, <4>0 DEF ConstantsNamed
      <4>. QED  BY <1>5, <1>6, <4>1 DEF Defined
    <3>. QED  BY <3>1, <3>2
  <2>2. ASSUME NEW k \in DOMAIN constants'
        PROVE  \E j \in DOMAIN source : source[j].kind = "constant" /\ source[j].name = constants'[k].name
    <3>1. CASE k = Len(constants) + 1
      BY <1>2, <1>4, <1>5, <1>7, <3>1
    <3>2. CASE k # Len(constants) + 1
      BY <1>1, <1>5, <1>6, <3>2 DEF ConstantsNamed
    <3>. QED  BY <3>1, <3>2
  <2>. QED  BY <1>2, <1>7, <2>1, <2>2 DEF ConstantsNamed
<1>. QED
  BY <1>2, <1>8, EarlyLog DEF AsmLog

LEMMA SkipLineLog == AsmInv /\ AsmLog /\ SkipLine => AsmLog'
<1> SUFFICES ASSUME AsmInv, AsmLog, SkipLine PROVE AsmLog'
  OBVIOUS
<1>1. Position /\ InstrsNumbered /\ ConstantsNamed /\ ConstantsAddressed /\ WordsHaveCode
  BY DEF AsmInv, AsmLog
<1>2. /\ stage' = stage /\ source' = source /\ at' = at + 1
      /\ UNCHANGED <<constants, addresses, words>>
  BY DEF SkipLine
<1>3. CASE In("constants") /\ current.line.kind # "constant"
  <2>1. stage = "constants" /\ at \in 1 .. Len(source) /\ source[at].kind # "constant"
    BY <1>1, <1>3, WalkedLine
  <2>2. ConstantsRead = at /\ ConstantsRead' = at + 1 /\ Len(source) \in Nat
    BY <1>1, <1>2, <2>1, SourceIsSource DEF ConstantsRead
  <2>3. ConstantsNamed'
    <3>1. ASSUME NEW j \in 1 .. at, source[j].kind = "constant" PROVE j \in 1 .. at - 1
      BY <2>1, <2>2, <3>1
    <3>2. \A j \in 1 .. at : source[j].kind = "constant" =>
            source[j].value.form \in {"string", "int", "float"} /\ Defined(source[j].name, constants)
      BY <1>1, <2>2, <3>1 DEF ConstantsNamed
    <3>. QED  BY <1>1, <1>2, <2>1, <2>2, <3>2 DEF ConstantsNamed
  <2>. QED  BY <1>2, <2>1, <2>3, EarlyLog DEF AsmLog
<1>4. CASE In("instructions")
  <2>1. stage = "instructions" /\ at \in 1 .. Len(source)
    BY <1>1, <1>4, WalkedLine
  <2>2. ConstantsNamed'
    BY <1>1, <1>2, <2>1, NamesUntouched DEF ConstantsRead
  <2>3. CodeRead = at /\ CodeRead' = at + 1
    BY <1>2, <2>1 DEF CodeRead
  <2>4. WordsHaveCode'
    <3>1. 1 .. at - 1 \subseteq 1 .. at + 1 - 1
      BY <2>1
    <3>. QED  BY <1>1, <1>2, <2>1, <2>3, <3>1 DEF WordsHaveCode
  <2>5. ConstantsAddressed' /\ EndsExplained'
    BY <1>1, <1>2, <2>1 DEF ConstantsAddressed, EndsExplained
  <2>. QED  BY <2>2, <2>4, <2>5 DEF AsmLog
<1>. QED
  BY <1>3, <1>4 DEF SkipLine

LEMMA ParseInstructionLog == AsmInv /\ AsmLog /\ ParseInstruction => AsmLog'
<1> SUFFICES ASSUME AsmInv, AsmLog, ParseInstruction PROVE AsmLog'
  OBVIOUS
<1>1. Position /\ InstrsNumbered /\ CodeEncoded /\ ConstantsNamed /\ ConstantsAddressed /\ WordsHaveCode
  BY DEF AsmInv, AsmLog
<1>2. /\ stage = "instructions" /\ at \in 1 .. Len(source) /\ source[at].kind = "code"
      /\ UNCHANGED <<source, stage, constants, addresses>> /\ at' = at + 1
  BY <1>1, WalkedLine DEF ParseInstruction
<1>3. PICK word : words' = Append(words, word)
  BY DEF ParseInstruction
<1>4. CodeRead = at /\ CodeRead' = at + 1
  BY <1>2 DEF CodeRead
<1>5. /\ words \in Seq(Instruction) /\ Len(words) = LinesAbove(source, "code", at)
      /\ Len(words) \in Nat /\ DOMAIN words' = 1 .. Len(words) + 1 /\ DOMAIN words = 1 .. Len(words)
  BY <1>1, <1>2, <1>3, <1>4 DEF CodeEncoded
<1>6. ASSUME NEW j \in DOMAIN words'
      PROVE  \E k \in 1 .. at : source[k].kind = "code" /\ LinesAbove(source, "code", k) = j - 1
  <2>1. CASE j = Len(words) + 1
    BY <1>2, <1>5, <2>1
  <2>2. CASE j # Len(words) + 1
    <3>1. j \in DOMAIN words
      BY <1>5, <2>2
    <3>2. PICK k \in 1 .. at - 1 : source[k].kind = "code" /\ LinesAbove(source, "code", k) = j - 1
      BY <1>1, <1>2, <1>4, <3>1 DEF WordsHaveCode
    <3>. QED  BY <1>2, <3>2
  <2>. QED  BY <2>1, <2>2
<1>7. WordsHaveCode'
  <2>1. at + 1 - 1 = at
    BY <1>2
  <2>. QED  BY <1>2, <1>4, <1>6, <2>1 DEF WordsHaveCode
<1>8. ConstantsNamed'
  BY <1>1, <1>2, NamesUntouched DEF ConstantsRead
<1>9. ConstantsAddressed' /\ EndsExplained'
  BY <1>1, <1>2 DEF ConstantsAddressed, EndsExplained
<1>. QED
  BY <1>7, <1>8, <1>9 DEF AsmLog

(* The process ends because a line is ill-formed, the RAM too small or a   *)
(* pointer wild.                                                           *)
LEMMA FailLog ==
  ASSUME AsmInv, AsmLog, NEW reason \in Failures, Fail(reason),
         reason = "rejected" => \E k \in DOMAIN source : IllFormed(source[k]),
         reason = "undefined" => "wild" \in FreshLinks \/ HasString
  PROVE  AsmLog'
<1>1. stage' = reason /\ UNCHANGED <<source, constants>>
  BY DEF Fail
<1>2. ConstantsNamed'
  BY <1>1, NamesUntouched DEF AsmLog, ConstantsRead, Failures
<1>3. ConstantsAddressed' /\ WordsHaveCode'
  BY <1>1 DEF ConstantsAddressed, WordsHaveCode, Failures
<1>4. EndsExplained'
  <2>1. (\E k \in DOMAIN source : IllFormed(source[k]))' <=> \E k \in DOMAIN source : IllFormed(source[k])
    BY <1>1 DEF IllFormed, Named
  <2>. QED  BY <1>1, <2>1 DEF EndsExplained, HasString
<1>. QED
  BY <1>2, <1>3, <1>4 DEF AsmLog

LEMMA RejectLog == AsmInv /\ AsmLog /\ (RejectConstant \/ RejectInstruction) => AsmLog'
<1> SUFFICES ASSUME AsmInv, AsmLog, RejectConstant \/ RejectInstruction PROVE AsmLog'
  OBVIOUS
<1>1. Position /\ InstrsNumbered /\ ConstantsNamed
  BY DEF AsmInv, AsmLog
<1>2. CASE RejectConstant
  <2>1. current.line = source[at] /\ source[at].kind = "constant" /\ at \in DOMAIN source
    BY <1>1, <1>2, WalkedLine, SourceIsSource DEF RejectConstant
  <2>2. CASE source[at].value.form \in {"absent", "invalid"} /\ Fail("rejected")
    BY <2>1, <2>2, FailLog DEF IllFormed, Failures
  <2>3. CASE source[at].value.form \in {"string", "quote"} /\ Fail("undefined")
    BY <2>1, <2>3, FailLog DEF HasString, Failures
  <2>. QED  BY <1>2, <2>1, <2>2, <2>3 DEF RejectConstant
<1>3. CASE RejectInstruction
  <2>1. /\ stage = "instructions" /\ at \in DOMAIN source /\ source[at].kind = "code" /\ IsLine(source[at])
        /\ LineRejected(source[at], labels, constants)
    BY <1>1, <1>3, WalkedLine, SourceIsSource DEF RejectInstruction
  <2>2. IllFormed(source[at])
    BY <1>1, <2>1, RejectedByName DEF IllFormed
  <2>3. PICK link \in Behind(labels) \cup {"null"} : Fail(IF link = "wild" THEN "undefined" ELSE "rejected")
    BY <1>3 DEF RejectInstruction
  <2>4. link = "wild" => "wild" \in FreshLinks
    BY DEF Behind
  <2>. QED  BY <2>1, <2>2, <2>3, <2>4, FailLog DEF Failures
<1>. QED
  BY <1>2, <1>3

LEMMA StoreConstantLog == AsmInv /\ AsmLog /\ StoreConstant => AsmLog'
<1> SUFFICES ASSUME AsmInv, AsmLog, StoreConstant PROVE AsmLog'
  OBVIOUS
<1>1. stage = "layout"
  BY WalkedConstant DEF StoreConstant
<1>2. CASE Fail("access_violation")
  BY <1>2, FailLog DEF Failures
<1>3. CASE ~ Fail("access_violation")
  <2>1. UNCHANGED <<source, stage, constants>>
    BY <1>3 DEF StoreConstant
  <2>. QED  BY <1>1, <2>1, NamesUntouched, EarlyLog DEF AsmLog, ConstantsRead
<1>. QED
  BY <1>2, <1>3

LEMMA EndPassLinks ==
  ASSUME EndPass, stage' = "undefined"
  PROVE  "wild" \in FreshLinks
<1>1. PICK k \in 1 .. Len(Passes) - 1 : stage = Passes[k] /\
        \E link \in (CASE stage = "layout" -> Behind(constants)
                       [] stage = "instructions" -> Behind(labels)
                       [] stage \in {"parse", "labels", "constants"} -> {"null"}) :
          stage' = IF link = "wild" THEN "undefined" ELSE Passes[k + 1]
  BY DEF EndPass
<1>2. k \in 1 .. 5 /\ Passes[k + 1] # "undefined"
  BY DEF Passes
<1>3. stage \in {"layout", "instructions"}
  BY EndPassCases
<1>. QED
  BY <1>1, <1>2, <1>3 DEF Behind

LEMMA EndPassLog == AsmInv /\ AsmLog /\ EndPass => AsmLog'
<1> SUFFICES ASSUME AsmInv, AsmLog, EndPass PROVE AsmLog'
  OBVIOUS
<1>1. /\ Position /\ InstrsNumbered /\ ConstantsListed /\ ConstantsStored /\ CodeEncoded
      /\ ConstantsNamed /\ ConstantsAddressed /\ WordsHaveCode
  BY DEF AsmInv, AsmLog
<1>2. /\ at > Len(Walked) /\ at' = 1
      /\ UNCHANGED <<source, address, instrs, labels, constants, addresses, ram, h, words>>
      /\ \/ stage = "parse" /\ stage' = "labels"
         \/ stage = "labels" /\ stage' = "constants"
         \/ stage = "constants" /\ stage' = "layout"
         \/ stage = "layout" /\ stage' \in {"instructions", "undefined"}
         \/ stage = "instructions" /\ stage' \in {"assembled", "undefined"}
  BY EndPassCases
<1>3. Len(source) \in Nat /\ Len(instrs) \in Nat /\ Len(constants) \in Nat /\ Len(addresses) \in Nat
  BY <1>1, SourceIsSource, SequenceType DEF InstrsNumbered, ConstantsListed, ConstantsStored
<1>4. stage \in {"constants", "instructions"} => at = Len(source) + 1
  BY <1>1, <1>2, <1>3 DEF Position, InstrsNumbered, Walked
<1>5. ConstantsNamed'
  BY <1>1, <1>2, <1>4, NamesUntouched DEF ConstantsRead
<1>6. ConstantsAddressed'
  <2>1. CASE stage = "layout"
    <3>1. at = Len(addresses) + 1 /\ at > Len(constants) /\ Len(addresses) <= Len(constants)
      BY <1>1, <1>2, <2>1 DEF Position, ConstantsStored, Walked
    <3>2. Len(addresses) = Len(constants)
      BY <1>3, <3>1
    <3>. QED  BY <1>2, <3>2 DEF ConstantsAddressed
  <2>. QED  BY <1>1, <1>2, <2>1 DEF ConstantsAddressed
<1>7. WordsHaveCode'
  <2>1. CASE stage' = "instructions"
    <3>1. words' = <<>>
      BY <1>1, <1>2, <2>1 DEF CodeEncoded
    <3>. QED  BY <3>1, EmptySequence DEF WordsHaveCode
  <2>2. CASE stage' = "assembled"
    <3>1. stage = "instructions" /\ CodeRead' = CodeRead
      BY <1>2, <1>4, <2>2 DEF CodeRead
    <3>. QED  BY <1>1, <1>2, <3>1 DEF WordsHaveCode
  <2>. QED  BY <1>2, <2>1, <2>2 DEF WordsHaveCode
<1>8. EndsExplained'
  BY <1>2, EndPassLinks DEF EndsExplained
<1>. QED
  BY <1>5, <1>6, <1>7, <1>8 DEF AsmLog

LEMMA AsmStepLog == AsmInv /\ AsmLog /\ AsmStep => AsmLog'
<1> SUFFICES ASSUME AsmInv, AsmLog, ParseLine \/ ParseLabel PROVE AsmLog'
  BY ParseConstantLog, RejectLog, SkipLineLog, StoreConstantLog, ParseInstructionLog, EndPassLog DEF AsmStep
<1>1. stage \in {"parse", "labels"} /\ UNCHANGED <<source, stage, constants>>
  BY DEF ParseLine, ParseLabel, In
<1>. QED
  BY <1>1, NamesUntouched, EarlyLog DEF AsmLog, ConstantsRead

LEMMA StutterLog == AsmLog /\ UNCHANGED asmVars => AsmLog'
<1> SUFFICES ASSUME AsmLog, UNCHANGED asmVars PROVE AsmLog'
  OBVIOUS
<1>1. UNCHANGED <<source, stage, at, constants, addresses, words>>
  BY DEF asmVars
<1>2. ConstantsNamed'
  BY <1>1, NamesUntouched DEF AsmLog, ConstantsRead
<1>3. ConstantsAddressed' /\ WordsHaveCode'
  BY <1>1 DEF AsmLog, ConstantsAddressed, WordsHaveCode, CodeRead
<1>4. EndsExplained'
  <2>1. (\E k \in DOMAIN source : IllFormed(source[k]))' <=> \E k \in DOMAIN source : IllFormed(source[k])
    BY <1>1 DEF IllFormed, Named
  <2>. QED  BY <1>1, <2>1 DEF AsmLog, EndsExplained, HasString
<1>. QED
  BY <1>2, <1>3, <1>4 DEF AsmLog
=============================================================================
