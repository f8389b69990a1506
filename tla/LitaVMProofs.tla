---------------------------- MODULE LitaVMProofs ----------------------------
(***************************************************************************)
(* Theorems about main of LitaVM: what compile, disassemble and vmExecute  *)
(* may rely on because of what ran before them.                            *)
(***************************************************************************)
EXTENDS LitaVM, VmProofs, AssemblerProofs, SequenceTheorems

-----------------------------------------------------------------------------
(* A documented line of code becomes a word that disassemble finds in its  *)
(* tables and vmExecute in its arrays.                                     *)
LEMMA NamesHaveDomains == DOMAIN RegisterNames = 1 .. 12 /\ Len(RegisterNames) = 12 /\ DOMAIN OpcodeStr = 1 .. 59
BY DEF RegisterNames, OpcodeStr

LEMMA FlavouredLdc == LDCI + Flavour["F"] \in LDCI .. LDCA /\ LDCI + Flavour["B"] \in LDCI .. LDCA
BY DEF LDCI, LDCA, Flavour

LEMMA RegistersAreShown ==
  ASSUME NEW r \in Reg, NEW isAddr
  PROVE  ShownRegister(r, isAddr).kind # "wild"
<1>1. r + 1 \in DOMAIN RegisterNames
  BY NamesHaveDomains, RegisterNamesAssumption, NumRegsAssumption DEF Reg
<1>. QED
  BY <1>1 DEF ShownRegister

LEMMA DocumentedLineIsSaid ==
  ASSUME TablesFit, NEW line, Accepted(line), DocumentedLine(line),
         NEW w, w = Encode(line, labels, constants)
  PROVE  OPCODE(w) = line.op /\ line.op \in 0 .. 31 /\ Says(line, w)
<1>1. line.op \in 0 .. 31
  <2>1. line.op < ADDI + 2
    BY DEF Accepted, DocumentedLine
  <2>2. line.op \in 0 .. MAX_OPCODES - 1
    BY AcceptedLine
  <2>. QED  BY <2>1, <2>2 DEF ADDI, MAX_OPCODES
<1>2. ASSUME line.args # <<>>, Last(line.args).kind = "imm" PROVE parseImmediateNumber(Last(line.args)) >= 0
  <2>1. Last(line.args) = line.args[Len(line.args)] /\ Len(line.args) \in DOMAIN line.args
    BY <1>2, AcceptedLine
  <2>2. \A k \in DOMAIN line.args : IsArgument(line.args[k])
    BY AcceptedLine
  <2> DEFINE arg == Last(line.args)
  <2>3. ~ arg.neg
    BY <1>2, <2>1 DEF DocumentedLine, Accepted
  <2>4. IsArgument(arg) /\ arg.kind = "imm"
    BY <1>2, <2>1, <2>2
  <2> HIDE DEF arg
  <2>5. Numeral(arg.base, arg.digits) \in Nat
    BY <2>4 DEF IsArgument
  <2>. QED  BY <2>3, <2>5 DEF parseImmediateNumber, Negated, arg
<1>3. Sayable(line)
  <2>1. line.op < 32
    BY <1>1
  <2>. QED  BY <1>2, <2>1 DEF Sayable
<1>4. Says(line, w)
  BY <1>3, LineIsSaid
<1>. QED
  BY <1>1, <1>4 DEF Says

(* The operands of the word: registers of the machine, constants of the    *)
(* table, and immediates where no float is read.                           *)
SecondOperandFits(w, table) ==
  \/ IS_ARG2_REG(w) /\ ARG2_VALUE(w) \in Reg
  \/ ~ IS_ARG2_REG(w) /\ IS_ARG2_IMM(w) /\ OPCODE(w) \notin FloatOpcodes
  \/ ~ IS_ARG2_REG(w) /\ ~ IS_ARG2_IMM(w) /\ ARG2_VALUE(w) + 1 \in DOMAIN table

OperandsFit(w, table) ==
  /\ OPCODE(w) \in 0 .. 31
  /\ opcodeNumArgs(OPCODE(w)) = 2 => ARG1_VALUE(w) \in Reg
  /\ opcodeNumArgs(OPCODE(w)) > 0 /\ OPCODE(w) \notin {JMP, CALL} =>
       /\ SecondOperandFits(w, table)
       /\ OPCODE(w) \in LDCI .. LDCA => ~ IS_ARG2_REG(w) /\ ~ IS_ARG2_IMM(w)
       /\ OPCODE(w) \in POPI .. DUPI + 2 => IS_ARG2_REG(w)

LEMMA DocumentedOperands ==
  ASSUME TablesFit, NEW line, Accepted(line), DocumentedLine(line),
         NEW w, w = Encode(line, labels, constants), NEW table, DOMAIN table = DOMAIN constants
  PROVE  OperandsFit(w, table)
<1> DEFINE op == line.op
           count == Len(line.args)
           arg == Last(line.args)
<1>1. OPCODE(w) = op /\ op \in 0 .. 31 /\ Says(line, w)
  BY DocumentedLineIsSaid
<1>2. /\ count = opcodeNumArgs(op) /\ count \in 0 .. 2 /\ DOMAIN line.args = 1 .. count
      /\ count > 0 => line.args # <<>> /\ arg = line.args[count]
      /\ \A k \in 1 .. count : IsArgument(line.args[k])
  BY AcceptedLine
<1>3. ASSUME count = 2 PROVE ARG1_VALUE(w) \in Reg
  <2>1. ~ parseArg1Rejected(line.args[1])
    BY <1>3, AcceptedLine
  <2>2. line.args[1].kind \in {"reg", "addr"}
    BY <2>1 DEF parseArg1Rejected
  <2>3. 1 \in DOMAIN line.args
    BY <1>2, <1>3
  <2>4. line.args[1].reg \in Reg
    BY <2>2, <2>3 DEF DocumentedLine, Accepted
  <2>. QED  BY <1>1, <1>3, <2>4 DEF Says
<1>4. ASSUME count > 0, op \notin {JMP, CALL}
      PROVE  /\ SecondOperandFits(w, table)
             /\ op \in LDCI .. LDCA => ~ IS_ARG2_REG(w) /\ ~ IS_ARG2_IMM(w)
             /\ op \in POPI .. DUPI + 2 => IS_ARG2_REG(w)
  <2>1. SaysArg2(arg, w)
    BY <1>1, <1>2, <1>4 DEF Says, Jumps
  <2>2. DocumentedLastArg(op, arg.kind)
    BY <1>2, <1>4 DEF DocumentedLine, Accepted
  <2>3. arg.kind \in {"reg", "addr"} => arg.reg \in Reg
    <3>1. arg = line.args[count] /\ count \in DOMAIN line.args
      BY <1>2, <1>4
    <3>. QED  BY <3>1 DEF DocumentedLine, Accepted
  <2> HIDE DEF arg, count, op
  <2>4. CASE arg.kind \in {"reg", "addr"}
    <3>1. arg.reg \in Reg /\ arg.reg >= 0
      BY <2>3, <2>4, NumRegsAssumption DEF Reg
    <3>2. IS_ARG2_REG(w) /\ ARG2_VALUE(w) \in Reg
      BY <2>1, <2>4, <3>1 DEF SaysArg2
    <3>3. op \notin LDCI .. LDCA
      BY <2>2, <2>4 DEF DocumentedLastArg, LDCI, LDCA, POPI, DUPI, JMP, CALL
    <3>. QED  BY <3>2, <3>3 DEF SecondOperandFits
  <2>5. CASE arg.kind = "const"
    <3>1. ~ IS_ARG2_REG(w) /\ ~ IS_ARG2_IMM(w) /\ ARG2_VALUE(w) + 1 \in DOMAIN table
      BY <2>1, <2>5 DEF SaysArg2
    <3>2. op \notin POPI .. DUPI + 2
      BY <1>4, <2>2, <2>5 DEF DocumentedLastArg, POPI, DUPI, LDCI, LDCA
    <3>. QED  BY <3>1, <3>2 DEF SecondOperandFits
  <2>6. CASE arg.kind \notin {"reg", "addr", "const"}
    <3>1. arg.kind = "imm" /\ op \notin FloatOpcodes /\ op \notin LDCI .. LDCA /\ op \notin POPI .. DUPI + 2
      BY <1>4, <2>2, <2>6 DEF DocumentedLastArg
    <3>2. ~ IS_ARG2_REG(w) /\ IS_ARG2_IMM(w)
      BY <2>1, <3>1 DEF SaysArg2
    <3>. QED  BY <1>1, <3>1, <3>2 DEF SecondOperandFits, op
  <2>. QED  BY <2>4, <2>5, <2>6
<1>5. opcodeNumArgs(OPCODE(w)) = count /\ (opcodeNumArgs(OPCODE(w)) > 0 <=> count > 0)
  BY <1>1, <1>2
<1>. QED
  <2> HIDE DEF count, arg
  <2>1. OPCODE(w) \in 0 .. 31
    BY <1>1
  <2>2. opcodeNumArgs(OPCODE(w)) = 2 => ARG1_VALUE(w) \in Reg
    BY <1>3, <1>5
  <2>3. opcodeNumArgs(OPCODE(w)) > 0 /\ OPCODE(w) \notin {JMP, CALL} =>
          /\ SecondOperandFits(w, table)
          /\ OPCODE(w) \in LDCI .. LDCA => ~ IS_ARG2_REG(w) /\ ~ IS_ARG2_IMM(w)
          /\ OPCODE(w) \in POPI .. DUPI + 2 => IS_ARG2_REG(w)
    BY <1>1, <1>4, <1>5
  <2>. QED  BY <2>1, <2>2, <2>3 DEF OperandsFit

LEMMA FittingIsWellFormed ==
  ASSUME NEW w, NEW table, OperandsFit(w, table)
  PROVE  WellFormedInstr(w, table)
<1> DEFINE op == OPCODE(w)
<1>1. op \in 0 .. 31
  BY DEF OperandsFit
<1>2. HasArg1(w) => ARG1_VALUE(w) \in Reg
  <2>1. HasArg1(w) => opcodeNumArgs(op) = 2
    BY <1>1 DEF HasArg1, opcodeNumArgs, MOVI, LDCA, IFI, IFEI, ADDI, RET, NOOP, PUSHI, DUPI, JMP, CALL, PRINTI, PRINTC
  <2>. QED  BY <2>1 DEF OperandsFit
<1>3. ASSUME PopsOrDups(w) PROVE ARG2_VALUE(w) \in Reg
  <2>1. opcodeNumArgs(op) > 0 /\ op \notin {JMP, CALL} /\ op \in POPI .. DUPI + 2
    BY <1>1, <1>3 DEF PopsOrDups, opcodeNumArgs, POPI, DUPI, PUSHI, JMP, CALL, RET, NOOP, PRINTI, PRINTC
  <2>2. SecondOperandFits(w, table) /\ IS_ARG2_REG(w)
    BY <2>1 DEF OperandsFit
  <2>. QED  BY <2>2 DEF SecondOperandFits
<1>4. ASSUME HasArg2(w)
      PROVE  \/ ~ ReadsConstant(w) /\ IS_ARG2_REG(w) /\ ARG2_VALUE(w) \in Reg
             \/ (ReadsConstant(w) \/ ~ IS_ARG2_REG(w)) /\ IS_ARG2_IMM(w) /\ TakesImmediate(w)
             \/ (ReadsConstant(w) \/ ~ IS_ARG2_REG(w)) /\ ARG2_VALUE(w) + 1 \in DOMAIN table
  <2>1. opcodeNumArgs(op) > 0 /\ op \notin {JMP, CALL}
    BY <1>1, <1>4 DEF HasArg2, opcodeNumArgs, RET, NOOP, JMP, CALL, POPI, DUPI
  <2>2. SecondOperandFits(w, table) /\ (ReadsConstant(w) => ~ IS_ARG2_REG(w) /\ ~ IS_ARG2_IMM(w))
    BY <2>1 DEF OperandsFit, ReadsConstant
  <2>3. op \notin FloatOpcodes /\ ~ ReadsConstant(w) => TakesImmediate(w)
    BY <1>1 DEF FloatOpcodes, ReadsConstant, TakesImmediate, MOVI, LDCI, LDCA, PUSHI, IFI, IFEI, PRINTI, ADDI
  <2>. QED  BY <2>2, <2>3 DEF SecondOperandFits
<1>. QED
  BY <1>2, <1>3, <1>4 DEF WellFormedInstr

LEMMA FittingIsDefined ==
  ASSUME NEW w, NEW table, OperandsFit(w, table)
  PROVE  IsDefined(w, table)
<1> DEFINE op == OPCODE(w)
           first == <<ShownRegister(ARG1_VALUE(w), IS_ARG1_ADDR(w))>>
           second == <<ShownArg2(w, table)>>
<1>1. op \in 0 .. 31
  BY DEF OperandsFit
<1>2. HasName(w)
  BY <1>1, NamesHaveDomains DEF HasName
<1>3. ASSUME opcodeNumArgs(op) = 2 PROVE first[1].kind # "wild"
  <2>1. ARG1_VALUE(w) \in Reg
    BY <1>3 DEF OperandsFit
  <2>. QED  BY <2>1, RegistersAreShown
<1>4. ASSUME opcodeNumArgs(op) > 0, op \notin {JMP, CALL} PROVE second[1].kind # "wild"
  <2>1. /\ SecondOperandFits(w, table)
        /\ op \in LDCI .. LDCA => ~ IS_ARG2_REG(w) /\ ~ IS_ARG2_IMM(w)
    BY <1>4 DEF OperandsFit
  <2>2. CASE op \in LDCI .. LDCA
    <3>1. ARG2_VALUE(w) + 1 \in DOMAIN table /\ ~ IS_ARG2_IMM(w)
      BY <2>1, <2>2 DEF SecondOperandFits
    <3>2. ShownArg2(w, table) = ShownConstant(ARG2_VALUE(w), table)
      BY <2>2, <3>1 DEF ShownArg2
    <3>. QED  BY <3>1, <3>2 DEF ShownConstant, ShownNumber
  <2>3. CASE op \notin LDCI .. LDCA /\ IS_ARG2_REG(w)
    <3>1. ARG2_VALUE(w) \in Reg
      BY <2>1, <2>3 DEF SecondOperandFits
    <3>2. ShownArg2(w, table) = ShownRegister(ARG2_VALUE(w), IS_ARG2_ADDR(w))
      BY <2>3, FlavouredLdc DEF ShownArg2
    <3>. QED  BY <3>1, <3>2, RegistersAreShown
  <2>4. CASE op \notin LDCI .. LDCA /\ ~ IS_ARG2_REG(w)
    <3>1. ShownArg2(w, table) =
            IF IS_ARG2_IMM(w) THEN [kind |-> "imm", n |-> ARG2_VALUE(w)] ELSE ShownNumber(ARG2_VALUE(w))
      BY <2>4, FlavouredLdc DEF ShownArg2
    <3>. QED  BY <3>1 DEF ShownNumber
  <2>. QED  BY <2>2, <2>3, <2>4
<1>5. ASSUME NEW k \in DOMAIN ShownArgs(w, table) PROVE ShownArgs(w, table)[k].kind # "wild"
  <2>1. CASE op \in {JMP, CALL}
    BY <2>1 DEF ShownArgs, ShownNumber
  <2>2. CASE op \notin {JMP, CALL} /\ opcodeNumArgs(op) = 2
    <3> HIDE DEF first, second
    <3> DEFINE T == {first[1], second[1]}
    <3>1. first \in Seq(T) /\ second \in Seq(T)
      BY DEF first, second
    <3>2. ShownArgs(w, table) = first \o second
      BY <2>2 DEF ShownArgs, first, second
    <3> HIDE DEF T
    <3>3. first \o second \in Seq(T)
      BY <3>1
    <3>4. ShownArgs(w, table)[k] \in T
      BY <1>5, <3>2, <3>3
    <3>. QED  BY <1>3, <1>4, <2>2, <3>4 DEF T
  <2>3. CASE op \notin {JMP, CALL} /\ opcodeNumArgs(op) = 1
    <3>1. ShownArgs(w, table) = second
      BY <2>3 DEF ShownArgs
    <3>. QED  BY <1>4, <1>5, <2>3, <3>1
  <2>4. CASE op \notin {JMP, CALL} /\ opcodeNumArgs(op) = 0
    BY <1>5, <2>4 DEF ShownArgs
  <2>. QED  BY <2>1, <2>2, <2>3, <2>4 DEF opcodeNumArgs
<1>. QED
  BY <1>2, <1>5 DEF IsDefined

-----------------------------------------------------------------------------
(* The listing.  A number of one digit, that is, of what AsWritten makes   *)
(* of a number: the fold of Numeral has one step.                          *)
LEMMA OneDigit ==
  ASSUME NEW n \in Nat
  PROVE  Numeral(10, <<n>>) = n
<1> DEFINE step(f) == [s \in SUBSET {1} |-> IF s = {} THEN 0 ELSE 10 * f[s \ {Max(s)}] + <<n>>[Max(s)]]
           g == [s \in SUBSET {1} |-> IF s = {} THEN 0 ELSE n]
<1>1. Max({1}) = 1
  <2>1. \A x : x \in {1} /\ (\A y \in {1} : x >= y) <=> x = 1
    OBVIOUS
  <2>. QED  BY <2>1, Zenon DEF Max
<1>2. {1} \ {1} = {} /\ DOMAIN <<n>> = {1} /\ <<n>>[1] = n
  OBVIOUS
<1>3. ASSUME NEW f, f = step(f) PROVE f[{1}] = n
  <2>1. f[{}] = 0
    BY <1>3
  <2>2. f[{1}] = 10 * f[{1} \ {1}] + <<n>>[1]
    BY <1>1, <1>3
  <2>. QED  BY <1>2, <2>1, <2>2
<1>4. g = step(g)
  <2>1. \A s \in SUBSET {1} : s = {} \/ s = {1}
    OBVIOUS
  <2>2. g[{}] = 0
    OBVIOUS
  <2>3. \A s \in SUBSET {1} :
          (IF s = {} THEN 0 ELSE n) = IF s = {} THEN 0 ELSE 10 * g[s \ {Max(s)}] + <<n>>[Max(s)]
    <3> HIDE DEF g
    <3> SUFFICES ASSUME NEW s \in SUBSET {1}, s = {1}
                 PROVE  n = 10 * g[s \ {Max(s)}] + <<n>>[Max(s)]
      BY <2>1
    <3>1. s \ {Max(s)} = {} /\ Max(s) = 1
      BY <1>1, <1>2
    <3>. QED  BY <1>2, <2>2, <3>1
  <2>. QED  BY <2>3
<1>5. (CHOOSE f : f = step(f))[{1}] = n
  <2> HIDE DEF step
  <2>. QED  BY <1>3, <1>4
<1>. QED
  BY <1>2, <1>5 DEF Numeral, FoldLeft, MapThenFoldSet

(* The tables have each name once.                                         *)
LEMMA RegisterReadsBack == \A r \in 0 .. 11 : cpuGetRegisterIndex(RegisterNames[r + 1]) = r
<1> SUFFICES ASSUME NEW r \in 0 .. 11 PROVE cpuGetRegisterIndex(RegisterNames[r + 1]) = r
  OBVIOUS
<1>1. r \in {0, 1, 2, 3, 4, 5, 6, 7, 8, 9, 10, 11}
  OBVIOUS
<1>. QED
  BY <1>1 DEF cpuGetRegisterIndex, RegisterNames

LEMMA OpcodesDiffer ==
  ASSUME NEW j \in 1 .. 59, NEW k \in 1 .. 59, OpcodeStr[j] = OpcodeStr[k]
  PROVE  j = k
BY SMTT(60) DEF OpcodeStr

LEMMA OpcodeReadsBack == \A op \in 0 .. 58 : opcodeFromString(OpcodeStr[op + 1]) = op
<1> SUFFICES ASSUME NEW op \in 0 .. 58 PROVE opcodeFromString(OpcodeStr[op + 1]) = op
  OBVIOUS
<1>1. op + 1 \in 1 .. 59 /\ DOMAIN OpcodeStr = 1 .. 59
  BY NamesHaveDomains
<1>2. \A k \in DOMAIN OpcodeStr : OpcodeStr[k] = OpcodeStr[op + 1] <=> k = op + 1
  BY <1>1, OpcodesDiffer
<1>3. \E k \in DOMAIN OpcodeStr : OpcodeStr[k] = OpcodeStr[op + 1]
  BY <1>1
<1>4. (CHOOSE k \in DOMAIN OpcodeStr : OpcodeStr[k] = OpcodeStr[op + 1]) = op + 1
  BY <1>2, <1>3, Zenon
<1>5. PlaceIn(OpcodeStr, OpcodeStr[op + 1]) = (op + 1) - 1
  BY <1>3, <1>4, Zenon DEF PlaceIn
<1>. QED
  BY <1>5 DEF opcodeFromString

(* A word with a name is one of an opcode of the machine, without a        *)
(* negative number: all others have a negative opcode.                     *)
LEMMA NamedWord ==
  ASSUME TablesFit, NEW line, Accepted(line), NEW w, w = Encode(line, labels, constants), HasName(w)
  PROVE  /\ line.op \in 0 .. 31 /\ OPCODE(w) = line.op /\ ~ Negative(line)
         /\ SecondPart(line) \in 0 .. ARG1_SHIFT - 1
         /\ \E f \in 0 .. 31 :
              /\ w = Fields(line.op, f, SecondPart(line))
              /\ ARG1_VALUE(w) = f % 16 /\ (IS_ARG1_ADDR(w) <=> f >= 16)
              /\ Len(line.args) # 2 => f = 0
<1>1. OPCODE(w) + 1 \in 1 .. 59
  BY NamesHaveDomains DEF HasName
<1>2. ~ Negative(line)
  <2> SUFFICES ASSUME Negative(line) PROVE FALSE
    OBVIOUS
  <2>1. SecondPart(line) \in Int /\ SecondPart(line) < 0
    BY SecondPartType DEF Instruction
  <2>2. PICK e : w = Combine(line.op, ARG1_SHIFT * e, SecondPart(line))
    BY EncodedParts
  <2>3. PICK m \in -32 .. -1, f \in 0 .. 31, x \in 0 .. ARG1_SHIFT - 1 :
          Combine(line.op, ARG1_SHIFT * e, SecondPart(line)) = Fields(m, f, x)
    BY <2>1, CombinedNegative
  <2>4. m \in -32 .. 31 /\ m < 0
    BY <2>3
  <2>5. OPCODE(w) = m
    BY <2>2, <2>3, <2>4, FieldsReadBack, Zenon
  <2>. QED  BY <1>1, <2>4, <2>5
<1>3. SecondPart(line) \in 0 .. ARG1_SHIFT - 1 /\ line.op \in 0 .. 58
  BY <1>2, SecondPartType, AcceptedLine DEF MAX_OPCODES
<1>4. PICK f \in 0 .. 31, m \in -32 .. 31 :
        /\ w = Fields(m, f, SecondPart(line))
        /\ line.op < 32 => m = line.op
        /\ line.op >= 32 => m < 0
        /\ Len(line.args) # 2 => f = 0
  BY <1>2, WordOfParts
<1>5. OPCODE(w) = m /\ ARG1_VALUE(w) = f % 16 /\ (IS_ARG1_ADDR(w) <=> f >= 16)
  <2>1. OPCODE(w) = m
    BY <1>3, <1>4, FieldsReadBack
  <2>2. ARG1_VALUE(w) = f % 16
    BY <1>3, <1>4, FieldsReadBack
  <2>3. IS_ARG1_ADDR(w) <=> f >= 16
    BY <1>3, <1>4, FieldsReadBack
  <2>. QED  BY <2>1, <2>2, <2>3
<1>6. m = line.op /\ line.op \in 0 .. 31
  BY <1>1, <1>3, <1>4, <1>5
<1>. QED
  BY <1>2, <1>3, <1>4, <1>5, <1>6

(* A register or a number that is shown, typed in again, has the bits it   *)
(* was shown for.                                                          *)
LEMMA ShownRegisterReadsBack ==
  ASSUME NEW r \in 0 .. 15, NEW isAddr, ShownRegister(r, isAddr).kind # "wild"
  PROVE  /\ AsWritten(ShownRegister(r, isAddr)).reg = r
         /\ AsWritten(ShownRegister(r, isAddr)).kind = (IF isAddr THEN "addr" ELSE "reg")
<1>1. r + 1 \in DOMAIN RegisterNames /\ r \in 0 .. 11
  <2>1. r + 1 \in DOMAIN RegisterNames
    BY DEF ShownRegister
  <2>. QED  BY <2>1, NamesHaveDomains
<1>2. ShownRegister(r, isAddr) = [kind |-> IF isAddr THEN "addr" ELSE "reg", name |-> RegisterNames[r + 1]]
  BY <1>1 DEF ShownRegister
<1>. QED
  BY <1>1, <1>2, RegisterReadsBack DEF AsWritten

LEMMA ShownFirstReadsBack ==
  ASSUME NEW f \in 0 .. 31, NEW w, ARG1_VALUE(w) = f % 16, IS_ARG1_ADDR(w) <=> f >= 16,
         NEW shown, shown = ShownRegister(ARG1_VALUE(w), IS_ARG1_ADDR(w)), shown.kind # "wild"
  PROVE  parseArg1(AsWritten(shown)) = ARG1_SHIFT * f
<1>1. ARG1_VALUE(w) \in 0 .. 15
  OBVIOUS
<1>2. /\ AsWritten(shown).reg = f % 16
      /\ AsWritten(shown).kind = (IF IS_ARG1_ADDR(w) THEN "addr" ELSE "reg")
  BY <1>1, ShownRegisterReadsBack
<1>3. f = (f % 16) + IF AsWritten(shown).kind = "addr" THEN 16 ELSE 0
  <2>1. f >= 16 => f = (f % 16) + 16
    OBVIOUS
  <2>2. ~ (f >= 16) => f = f % 16
    OBVIOUS
  <2>. QED  BY <1>2, <2>1, <2>2
<1>. QED
  BY <1>2, <1>3, Weights DEF parseArg1

LEMMA ShownSecondReadsBack ==
  ASSUME TablesFit, NEW line, Accepted(line), ~ Negative(line), line.args # <<>>, ~ Jumps(line),
         NEW w, w = Encode(line, labels, constants), NEW table,
         NEW shown, shown = ShownArg2(w, table), shown.kind \in {"reg", "addr", "imm"}
  PROVE  parseArg2(AsWritten(shown), <<>>, <<>>) = SecondPart(line)
<1> DEFINE arg == Last(line.args)
<1>1. /\ ARG2_VALUE(w) = Operand(arg) /\ Mode(arg) \in 0 .. 3 /\ Operand(arg) \in 0 .. MAX_IMMEDIATE_VALUE
      /\ SecondPart(line) = ARG2_IMM_MASK * Mode(arg) + Operand(arg)
      /\ IS_ARG2_REG(w) <=> (Mode(arg) >= 2)
      /\ IS_ARG2_IMM(w) <=> (Mode(arg) \in {1, 3})
      /\ IS_ARG2_ADDR(w) <=> (Mode(arg) \in {1, 3})
  BY SecondArgumentIsSaid, SecondPartType
<1> HIDE DEF arg
<1>2. OPCODE(w) \notin LDCI .. LDCA
  <2> SUFFICES ASSUME OPCODE(w) \in LDCI .. LDCA PROVE FALSE
    OBVIOUS
  <2>1. OPCODE(w) \in {LDCI, LDCI + Flavour["F"], LDCI + Flavour["B"], LDCA}
    BY DEF LDCI, LDCA, Flavour
  <2>2. shown = ShownConstant(ARG2_VALUE(w), table) \/ shown = ShownNumber(ARG2_VALUE(w))
    BY <2>1 DEF ShownArg2, LDCI, LDCA, Flavour
  <2>. QED  BY <2>2 DEF ShownConstant, ShownNumber
<1>3. CASE IS_ARG2_REG(w)
  <2>1. shown = ShownRegister(ARG2_VALUE(w), IS_ARG2_ADDR(w))
    BY <1>2, <1>3, FlavouredLdc DEF ShownArg2, LDCI, LDCA
  <2>2. ARG2_VALUE(w) \in 0 .. 15
    <3>1. ARG2_VALUE(w) + 1 \in DOMAIN RegisterNames
      BY <2>1 DEF ShownRegister
    <3>. QED  BY <1>1, <3>1, NamesHaveDomains, Weights, SMTT(30)
  <2>3. /\ AsWritten(shown).reg = ARG2_VALUE(w)
        /\ AsWritten(shown).kind = (IF IS_ARG2_ADDR(w) THEN "addr" ELSE "reg")
    BY <2>1, <2>2, ShownRegisterReadsBack, SMTT(30)
  <2>4. Mode(arg) = IF IS_ARG2_ADDR(w) THEN 3 ELSE 2
    BY <1>1, <1>3
  <2>5. CASE IS_ARG2_ADDR(w)
    <3>1. parseArg2(AsWritten(shown), <<>>, <<>>) = ARG2_REG_MASK + ARG2_ADDR_MASK + ARG2_VALUE(w)
      BY <2>3, <2>5 DEF parseArg2
    <3>. QED  BY <1>1, <2>4, <2>5, <3>1, Weights
  <2>6. CASE ~ IS_ARG2_ADDR(w)
    <3>1. parseArg2(AsWritten(shown), <<>>, <<>>) = ARG2_REG_MASK + ARG2_VALUE(w)
      BY <2>2, <2>3, <2>6 DEF parseArg2
    <3>. QED  BY <1>1, <2>4, <2>6, <3>1, Weights
  <2>. QED  BY <2>5, <2>6
<1>4. CASE ~ IS_ARG2_REG(w)
  <2>1. IS_ARG2_IMM(w) /\ shown = [kind |-> "imm", n |-> ARG2_VALUE(w)]
    BY <1>2, <1>4, FlavouredLdc DEF ShownArg2, ShownNumber, LDCI, LDCA
  <2>2. Mode(arg) = 1
    BY <1>1, <1>4, <2>1
  <2>3. AsWritten(shown) = [kind |-> "imm", base |-> 10, digits |-> <<ARG2_VALUE(w)>>, neg |-> FALSE]
    BY <2>1 DEF AsWritten
  <2>4. ARG2_VALUE(w) \in Nat
    BY <1>1, Weights
  <2>5. parseImmediateNumber(AsWritten(shown)) = ARG2_VALUE(w)
    BY <2>3, <2>4, OneDigit DEF parseImmediateNumber, Negated
  <2>6. parseArg2(AsWritten(shown), <<>>, <<>>) = ImmediateBits(ARG2_VALUE(w))
    BY <2>3, <2>5 DEF parseArg2
  <2>. QED  BY <1>1, <2>2, <2>4, <2>6, ImmediateOfNatural, Weights
<1>. QED
  BY <1>3, <1>4

(* A listed line that can be typed in again is encoded as the word it      *)
(* shows.                                                                  *)
LEMMA Pair == ASSUME NEW a, NEW b PROVE <<a>> \o <<b>> = <<a, b>>
<1> DEFINE S == {a, b}
           s == <<a>>
           t == <<b>>
<1>1. s \in Seq(S) /\ t \in Seq(S) /\ Len(s) = 1 /\ Len(t) = 1 /\ s[1] = a /\ t[1] = b
  OBVIOUS
<1>2. <<a, b>> \in Seq(S) /\ Len(<<a, b>>) = 2 /\ <<a, b>>[1] = a /\ <<a, b>>[2] = b
  OBVIOUS
<1> HIDE DEF s, t, S
<1>3. /\ s \o t \in Seq(S) /\ Len(s \o t) = 2
      /\ \A k \in 1 .. 2 : (s \o t)[k] = IF k <= 1 THEN s[k] ELSE t[k - 1]
  BY <1>1, ConcatProperties
<1>4. s \o t = <<a, b>>
  <2>1. (s \o t)[1] = a /\ (s \o t)[2] = b
    BY <1>1, <1>3
  <2> DEFINE u == s \o t
             v == <<a, b>>
  <2>2. u \in Seq(S) /\ v \in Seq(S) /\ Len(u) = 2 /\ Len(v) = 2 /\ \A k \in 1 .. 2 : u[k] = v[k]
    BY <1>2, <1>3, <2>1
  <2> HIDE DEF u, v
  <2>3. u = v
    BY <2>2
  <2>. QED  BY <2>3 DEF u, v
<1>. QED
  BY <1>4 DEF s, t

LEMMA TwoAreShown ==
  ASSUME NEW w, NEW table, opcodeNumArgs(OPCODE(w)) = 2, OPCODE(w) \notin {JMP, CALL}
  PROVE  ShownArgs(w, table) = <<ShownRegister(ARG1_VALUE(w), IS_ARG1_ADDR(w)), ShownArg2(w, table)>>
<1>1. opcodeNumArgs(OPCODE(w)) > 0
  OBVIOUS
<1>2. ShownArgs(w, table) = <<ShownRegister(ARG1_VALUE(w), IS_ARG1_ADDR(w))>> \o <<ShownArg2(w, table)>>
  BY <1>1, Zenon DEF ShownArgs
<1>. QED
  BY <1>2, Pair

LEMMA ListedReadsBack ==
  ASSUME TablesFit, NEW line, Accepted(line), NEW w, w = Encode(line, labels, constants),
         NEW table, IsDefined(w, table), Writable(Listed(w, table))
  PROVE  Encode(LineShown(Listed(w, table)), <<>>, <<>>) = w
<1> DEFINE shown == Listed(w, table)
           first == ShownRegister(ARG1_VALUE(w), IS_ARG1_ADDR(w))
           second == ShownArg2(w, table)
           typed == LineShown(shown)
<1>1. /\ line.op \in 0 .. 31 /\ OPCODE(w) = line.op /\ ~ Negative(line)
      /\ SecondPart(line) \in 0 .. ARG1_SHIFT - 1
  BY NamedWord DEF IsDefined
<1>2. PICK f \in 0 .. 31 :
        /\ w = Fields(line.op, f, SecondPart(line))
        /\ ARG1_VALUE(w) = f % 16 /\ (IS_ARG1_ADDR(w) <=> f >= 16)
        /\ Len(line.args) # 2 => f = 0
  BY NamedWord DEF IsDefined
<1>3. /\ shown.name = OpcodeStr[line.op + 1] /\ shown.args = ShownArgs(w, table)
      /\ \A k \in DOMAIN ShownArgs(w, table) : ShownArgs(w, table)[k].kind \in {"reg", "addr", "imm"}
  BY <1>1 DEF Listed, Writable
<1>4. /\ typed.op = line.op
      /\ typed.args = [k \in DOMAIN ShownArgs(w, table) |-> AsWritten(ShownArgs(w, table)[k])]
  BY <1>1, <1>3, OpcodeReadsBack DEF LineShown
<1>5. ~ Jumps(line)
  <2> SUFFICES ASSUME Jumps(line) PROVE FALSE
    OBVIOUS
  <2>1. ShownArgs(w, table) = <<ShownNumber(ARG_JMP_VALUE(w))>>
    BY <1>1 DEF Jumps, ShownArgs
  <2>. QED  BY <1>3, <2>1 DEF ShownNumber
<1>6. ~ Jumps(typed)
  BY <1>4, <1>5 DEF Jumps
<1>7. Combine(line.op, ARG1_SHIFT * f, SecondPart(line)) = w
  BY <1>1, <1>2, Weights DEF Combine, OpcodeBits, Fields
<1>8. Len(line.args) = opcodeNumArgs(line.op) /\ (line.args = <<>> => Len(line.args) = 0)
      /\ (line.args # <<>> => Len(line.args) > 0)
  BY AcceptedLine
<1> HIDE DEF shown, first, second, typed
<1>9. CASE opcodeNumArgs(line.op) = 2
  <2>1. ShownArgs(w, table) = <<first, second>>
    BY <1>1, <1>5, <1>9, TwoAreShown DEF Jumps, first, second
  <2>2. first.kind # "wild" /\ second.kind \in {"reg", "addr", "imm"}
    <3>1. <<first, second>>[1].kind \in {"reg", "addr", "imm"} /\ <<first, second>>[2].kind \in {"reg", "addr", "imm"}
      BY <1>3, <2>1
    <3>. QED  BY <3>1
  <2>3. typed.args = <<AsWritten(first), AsWritten(second)>>
    BY <1>4, <2>1
  <2>4. parseArg1(AsWritten(first)) = ARG1_SHIFT * f
    BY <1>2, <2>2, ShownFirstReadsBack DEF first
  <2>5. parseArg2(AsWritten(second), <<>>, <<>>) = SecondPart(line)
    BY <1>1, <1>5, <1>8, <1>9, <2>2, ShownSecondReadsBack DEF second
  <2>6. Len(typed.args) = 2 /\ typed.args[1] = AsWritten(first) /\ Last(typed.args) = AsWritten(second)
        /\ typed.args # <<>>
    BY <2>3 DEF Last
  <2>7. Encode(typed, <<>>, <<>>) = Combine(line.op, ARG1_SHIFT * f, SecondPart(line))
    BY <1>4, <1>6, <2>4, <2>5, <2>6 DEF Encode
  <2>. QED  BY <1>7, <2>7 DEF typed, shown
<1>10. CASE opcodeNumArgs(line.op) = 1
  <2>1. ShownArgs(w, table) = <<second>>
    BY <1>1, <1>5, <1>10 DEF ShownArgs, Jumps, second
  <2>2. second.kind \in {"reg", "addr", "imm"}
    BY <1>3, <2>1
  <2>3. typed.args = <<AsWritten(second)>>
    BY <1>4, <2>1
  <2>4. f = 0 /\ ARG1_SHIFT * f = 0
    BY <1>2, <1>8, <1>10, Weights
  <2>5. parseArg2(AsWritten(second), <<>>, <<>>) = SecondPart(line)
    BY <1>1, <1>5, <1>8, <1>10, <2>2, ShownSecondReadsBack DEF second
  <2>6. Len(typed.args) = 1 /\ Last(typed.args) = AsWritten(second) /\ typed.args # <<>>
    BY <2>3 DEF Last
  <2>7. Encode(typed, <<>>, <<>>) = Combine(line.op, 0, SecondPart(line))
    BY <1>4, <1>6, <2>5, <2>6 DEF Encode
  <2>. QED  BY <1>7, <2>4, <2>7 DEF typed, shown
<1>11. CASE opcodeNumArgs(line.op) = 0
  <2>1. ShownArgs(w, table) = <<>>
    BY <1>1, <1>5, <1>11 DEF ShownArgs, Jumps
  <2>2. typed.args = <<>> /\ Len(typed.args) = 0
    BY <1>4, <2>1
  <2>3. f = 0 /\ ARG1_SHIFT * f = 0 /\ SecondPart(line) = 0
    BY <1>2, <1>8, <1>11, Weights DEF SecondPart
  <2>4. Encode(typed, <<>>, <<>>) = Combine(line.op, 0, 0)
    BY <1>4, <2>2 DEF Encode
  <2>. QED  BY <1>7, <2>3, <2>4 DEF typed, shown
<1>. QED
  BY <1>9, <1>10, <1>11 DEF opcodeNumArgs

(* The listing of a word shows the line the word encodes.                  *)
LEMMA ListedShows ==
  ASSUME TablesFit, NEW line, Accepted(line), NEW w, w = Encode(line, labels, constants),
         IsDefined(w, addresses)
  PROVE  Shows(Listed(w, addresses), line, w)
<1> DEFINE shown == Listed(w, addresses)
<1>1. line.op \in 0 .. 31 /\ OPCODE(w) = line.op /\ ~ Negative(line)
  BY NamedWord DEF IsDefined
<1>2. shown.name = OpcodeStr[line.op + 1] /\ shown.args = ShownArgs(w, addresses)
  BY <1>1 DEF Listed
<1>3. opcodeFromString(shown.name) = line.op
  BY <1>1, <1>2, OpcodeReadsBack
<1>4. Writable(shown) => Encode(LineShown(shown), <<>>, <<>>) = w
  BY ListedReadsBack
<1>5. ASSUME line.op \in LDCI .. LDCA, line.args[2].kind = "const"
      PROVE  Last(shown.args).n = addresses[FirstIndex(line.args[2].name, constants)]
  <2> DEFINE arg == Last(line.args)
  <2>1. line.op \notin {JMP, CALL} /\ opcodeNumArgs(line.op) = 2
    BY <1>5 DEF LDCI, LDCA, JMP, CALL, RET, NOOP, PUSHI, DUPI, PRINTI, PRINTC, opcodeNumArgs
  <2>2. Len(line.args) = 2 /\ line.args # <<>> /\ ~ Jumps(line) /\ arg = line.args[2]
        /\ ~ parseArg2Rejected(arg, labels, constants)
    BY <2>1, AcceptedLine DEF Jumps
  <2>3. arg.kind = "const" /\ arg.name = line.args[2].name
    BY <1>5, <2>2
  <2>4. ARG2_VALUE(w) = Operand(arg) /\ (IS_ARG2_IMM(w) <=> (Mode(arg) \in {1, 3}))
    BY <1>1, <2>2, SecondArgumentIsSaid
  <2> HIDE DEF arg
  <2>5. ~ IS_ARG2_IMM(w) /\ ARG2_VALUE(w) = FirstIndex(arg.name, constants) - 1
    BY <2>3, <2>4 DEF Mode, Operand, findConstantIndex
  <2>6. FirstIndex(arg.name, constants) \in Nat
    <3>1. Defined(arg.name, constants)
      BY <2>2, <2>3 DEF parseArg2Rejected
    <3>. QED  BY <3>1, FirstIndexIsFirst, SequenceType DEF TablesFit
  <2>7. ShownArg2(w, addresses) = ShownConstant(ARG2_VALUE(w), addresses)
    BY <1>1, <1>5, <2>5 DEF ShownArg2
  <2>8. ShownArgs(w, addresses) = <<ShownRegister(ARG1_VALUE(w), IS_ARG1_ADDR(w)), ShownArg2(w, addresses)>>
    BY <1>1, <2>1, TwoAreShown
  <2>9. Last(shown.args) = ShownArg2(w, addresses) /\ ShownArg2(w, addresses).kind # "wild"
    <3>1. 2 \in DOMAIN ShownArgs(w, addresses) /\ ShownArgs(w, addresses)[2] = ShownArg2(w, addresses)
          /\ Len(ShownArgs(w, addresses)) = 2
      BY <2>8
    <3>. QED  BY <1>2, <3>1 DEF IsDefined, Last
  <2>10. ARG2_VALUE(w) + 1 = FirstIndex(arg.name, constants)
    BY <2>5, <2>6
  <2>11. ShownArg2(w, addresses) = ShownNumber(addresses[ARG2_VALUE(w) + 1])
    BY <2>7, <2>9 DEF ShownConstant
  <2>. QED  BY <2>3, <2>9, <2>10, <2>11 DEF ShownNumber
<1>6. ASSUME Jumps(line), line.args[1].kind = "label"
      PROVE  Last(shown.args).n = labels[FirstIndex(line.args[1].name, labels)].address
  <2>1. ShownArgs(w, addresses) = <<ShownNumber(ARG_JMP_VALUE(w))>>
    BY <1>1, <1>6 DEF ShownArgs, Jumps
  <2>2. Last(shown.args) = ShownNumber(ARG_JMP_VALUE(w))
    BY <1>2, <2>1 DEF Last
  <2>3. ARG_JMP_VALUE(w) = parseJmp(line.args[1], labels)
    BY <1>6, JumpIsSaid
  <2>. QED  BY <1>6, <2>2, <2>3 DEF ShownNumber, parseJmp
<1>. QED
  BY <1>3, <1>4, <1>5, <1>6 DEF Shows

-----------------------------------------------------------------------------
(* A file DocumentedProgramsAreSafe speaks of.                             *)
DocumentedFile ==
  \A k \in DOMAIN source :
    /\ DocumentedLine(source[k])
    /\ source[k].kind = "constant" => source[k].value.form \notin {"string", "quote"}

WordsFit == \A j \in DOMAIN code.instrs : OperandsFit(code.instrs[j], code.constants)

LEMMA AssembledWordsFit ==
  ASSUME AsmInv, AsmLog, stage = "assembled", DocumentedFile, NEW j \in DOMAIN words
  PROVE  OperandsFit(words[j], addresses)
<1>1. TablesFit /\ Position /\ ConstantsListed /\ ConstantsStored /\ ConstantsAddressed /\ WordsHaveCode
  BY InvTablesFit DEF AsmInv, AsmLog
<1>2. CodeRead - 1 = Len(source) /\ DOMAIN source = 1 .. Len(source)
  BY <1>1, SourceIsSource DEF CodeRead
<1>3. PICK k \in 1 .. Len(source) : source[k].kind = "code" /\ LinesAbove(source, "code", k) = j - 1
  BY <1>1, <1>2 DEF WordsHaveCode
<1>4. k \in Codes
  BY <1>2, <1>3 DEF Codes
<1>5. j - 1 + 1 = j
  <2>1. words \in Seq(Instruction)
    BY DEF AsmInv, CodeEncoded
  <2>. QED  BY <2>1
<1>6. words[j] = WordOf(k)
  BY <1>3, <1>5 DEF WordOf
<1>7. Accepted(source[k]) /\ words[j] = Encode(source[k], labels, constants)
  BY <1>4, <1>6, CodeIsEncoded
<1>8. DocumentedLine(source[k])
  BY <1>2 DEF DocumentedFile
<1>9. DOMAIN addresses = DOMAIN constants
  BY <1>1, SequenceType DEF ConstantsAddressed, ConstantsListed, ConstantsStored
<1>. QED
  BY <1>1, <1>7, <1>8, <1>9, DocumentedOperands

-----------------------------------------------------------------------------
(* The inductive invariant: what each phase of main leaves to the next.    *)
Early == {"options", "readFile", "vmInit", "compile"}

CommandLineRead ==
  argv \in CommandLines /\ i \in 1 .. Len(argv) + 1 /\ ramSize \in size_t /\ stackSize \in size_t

PhaseAndExit ==
  /\ phase \in Phases /\ exit \in {Trapped, Undefined, -1, 0, 1, 2, 32}
  /\ exit = -1 <=> phase # "over"

Listing ==
  /\ IsSequence(listing) /\ Len(listing) <= Len(words)
  /\ phase \in Early => listing = <<>>

(* Until vmInit is done, compile is at its beginning.                      *)
NotCompiledYet ==
  phase \in {"options", "readFile", "vmInit"} =>
    /\ stage = "parse" /\ at = 1 /\ address = 0 /\ h = 0
    /\ instrs = <<>> /\ labels = <<>> /\ constants = <<>> /\ addresses = <<>> /\ words = <<>>
    /\ phase = "vmInit" => source \in Sources

(* ... while it runs, its own invariants hold and $sp is set, ...          *)
Compiling == phase = "compile" => AsmInv /\ AsmLog /\ regs[SP] = RamSize - 1

(* ... and what it returned stays true of the file and of the program.     *)
Compiled ==
  phase \in {"disassemble", "execute"} =>
    /\ stage = "assembled" /\ Len(code.instrs) = Len(words)
    /\ \A k \in DOMAIN source : ~ IllFormed(source[k])
    /\ DocumentedFile => WordsFit

MachineWaits ==
  /\ phase \in Early \cup {"disassemble"} => pc = 0 /\ status = "running" /\ out = <<>>
  /\ phase = "disassemble" => MachineIsReady

Outcome ==
  /\ phase = "execute" /\ DocumentedFile => status # "undefined"
  /\ exit = 32 => \E k \in DOMAIN source : IllFormed(source[k])
  /\ "wild" \notin FreshLinks /\ RamIsThere /\ DocumentedFile => exit # Undefined

MainInv ==
  /\ CommandLineRead /\ PhaseAndExit /\ Listing /\ TypeOK
  /\ NotCompiledYet /\ Compiling /\ Compiled /\ MachineWaits /\ Outcome

LEMMA InitMainInv == MainInit => MainInv
<1> SUFFICES ASSUME MainInit PROVE MainInv
  OBVIOUS
<1>1. CommandLineRead
  <2>1. Len(argv) \in Nat /\ argv \in CommandLines
    BY CommandLinesAssumption, SequenceType DEF MainInit
  <2>2. i = 1 /\ 1 \in 1 .. Len(argv) + 1
    BY <2>1 DEF MainInit
  <2>. QED  BY <2>1, <2>2, SizesAssumption DEF MainInit, CommandLineRead
<1>2. PhaseAndExit
  BY DEF MainInit, PhaseAndExit, Phases
<1>3. Listing
  BY EmptySequence DEF MainInit, Listing
<1>4. TypeOK
  <2>1. code \in Program
    BY DEF MainInit, Program
  <2>2. regs \in [Reg -> Word] /\ ram \in [Cell -> Byte]
    BY WordSizeType, ByteSizeType DEF MainInit, Word, Byte
  <2>3. out \in Seq(Printed) /\ status \in Statuses /\ pc \in Nat
    BY DEF MainInit, Statuses
  <2>. QED  BY <2>1, <2>2, <2>3 DEF TypeOK
<1>5. NotCompiledYet /\ Compiling /\ Compiled
  BY DEF MainInit, NotCompiledYet, Compiling, Compiled
<1>6. MachineWaits /\ Outcome
  BY DEF MainInit, MachineWaits, Outcome, Undefined
<1>. QED
  BY <1>1, <1>2, <1>3, <1>4, <1>5, <1>6 DEF MainInv

(* The file, and what is said of it, is the same as long as source is.     *)
LEMMA SameFile ==
  ASSUME UNCHANGED source
  PROVE  /\ DocumentedFile' <=> DocumentedFile
         /\ (\E k \in DOMAIN source : IllFormed(source[k]))' <=> \E k \in DOMAIN source : IllFormed(source[k])
BY DEF DocumentedFile, DocumentedLine, DocumentedLastArg, IllFormed, Named

(* The process ends by itself, with an exit code that needs no explanation.*)
LEMMA ExitInv ==
  ASSUME MainInv, CommandLineRead', NEW n \in {-3, -2, 0, 1, 2, 32}, Exit(n),
         UNCHANGED <<ramSize, source, words, listing, machineVars, ram>>,
         n = 32 => \E k \in DOMAIN source : IllFormed(source[k]),
         n = -2 => ~ ("wild" \notin FreshLinks /\ RamIsThere /\ DocumentedFile)
  PROVE  MainInv'
<1>1. phase' = "over" /\ exit' = n
  BY DEF Exit
<1>2. PhaseAndExit'
  BY <1>1 DEF PhaseAndExit, Phases, Trapped, Undefined
<1>3. Listing'
  BY <1>1 DEF MainInv, Listing, Early, IsSequence
<1>4. TypeOK'
  BY DEF MainInv, TypeOK, machineVars
<1>5. NotCompiledYet' /\ Compiling' /\ Compiled' /\ MachineWaits'
  BY <1>1 DEF NotCompiledYet, Compiling, Compiled, MachineWaits, Early
<1>6. Outcome'
  <2>1. RamIsThere' = RamIsThere
    BY DEF RamIsThere, Allocated
  <2>. QED  BY <1>1, <2>1, SameFile DEF Outcome, Undefined
<1>. QED
  BY <1>2, <1>3, <1>4, <1>5, <1>6 DEF MainInv

-----------------------------------------------------------------------------
(* The command line.                                                       *)
LEMMA OptionsInv ==
  ASSUME MainInv, DisassemblyOption \/ SizeOption \/ MissingParameter \/ FileArgument \/ EndOfOptions
  PROVE  MainInv'
<1>1. /\ argv \in CommandLines /\ IsSequence(argv) /\ Len(argv) \in Nat /\ DOMAIN argv = 1 .. Len(argv)
      /\ i \in 1 .. Len(argv) + 1 /\ ramSize \in size_t /\ stackSize \in size_t
  BY CommandLinesAssumption, SequenceType DEF MainInv, CommandLineRead
<1>2. ASSUME NEW k \in 1 .. Len(argv) PROVE asSize(strtol(argv[k])) \in size_t
  <2>1. strtol(argv[k]) \in Int
    <3>1. argv[k].kind = "number" => argv[k].n \in Int
      BY <1>1, CommandLinesAssumption
    <3>. QED  BY <3>1, SizesAssumption DEF strtol
  <2>2. \A n \in Int : n % (SizeMax + 1) \in 0 .. SizeMax
    BY SizesAssumption
  <2>. QED  BY <2>1, <2>2 DEF asSize, size_t
<1>3. UNCHANGED <<argv, listing, compileVars, machineVars, ram>> /\ phase = "options"
  BY DEF DisassemblyOption, SizeOption, MissingParameter, FileArgument, EndOfOptions, Unchanged, InOptions
<1>4. UNCHANGED <<source, stage, at, address, instrs, labels, constants, addresses, h, words,
                  code, regs, pc, status, out>>
  BY <1>3 DEF compileVars, machineVars
<1>5. CommandLineRead'
  <2>1. CASE DisassemblyOption \/ FileArgument
    <3>1. i <= Len(argv) /\ i' = i + 1 /\ UNCHANGED <<ramSize, stackSize>>
      BY <2>1 DEF DisassemblyOption, FileArgument, InOptions
    <3>. QED  BY <1>1, <1>3, <3>1 DEF CommandLineRead
  <2>2. CASE SizeOption
    <3>1. i < Len(argv) /\ i' = i + 2
          /\ stackSize' \in {stackSize, asSize(strtol(argv[i + 1]))}
          /\ ramSize' \in {ramSize, asSize(strtol(argv[i + 1]))}
      BY <2>2 DEF SizeOption
    <3>2. i + 1 \in 1 .. Len(argv) /\ i + 2 \in 1 .. Len(argv) + 1
      BY <1>1, <3>1
    <3>. QED  BY <1>1, <1>2, <1>3, <3>1, <3>2 DEF CommandLineRead
  <2>3. CASE MissingParameter \/ EndOfOptions
    <3>1. UNCHANGED <<i, ramSize, stackSize>>
      BY <2>3 DEF MissingParameter, EndOfOptions, optionVars
    <3>. QED  BY <1>1, <1>3, <3>1 DEF CommandLineRead
  <2>. QED  BY <2>1, <2>2, <2>3
<1>6. CASE Exit(2) /\ UNCHANGED optionVars
  BY <1>3, <1>4, <1>5, <1>6, ExitInv DEF optionVars
<1>7. CASE Exit(0) /\ UNCHANGED optionVars
  BY <1>3, <1>4, <1>5, <1>7, ExitInv DEF optionVars
<1>8. CASE phase' \in {"options", "readFile"} /\ exit' = exit
  <2>1. PhaseAndExit'
    BY <1>3, <1>8 DEF MainInv, PhaseAndExit, Phases
  <2>2. Listing'
    BY <1>3, <1>4 DEF MainInv, Listing, IsSequence, Early
  <2>3. TypeOK'
    BY <1>3, <1>4 DEF MainInv, TypeOK
  <2>4. NotCompiledYet'
    BY <1>3, <1>4, <1>8 DEF MainInv, NotCompiledYet
  <2>5. Compiling' /\ Compiled'
    BY <1>8 DEF Compiling, Compiled
  <2>6. MachineWaits'
    BY <1>3, <1>4, <1>8 DEF MainInv, MachineWaits, Early
  <2>7. Outcome'
    BY <1>3, <1>4, <1>8 DEF MainInv, Outcome, PhaseAndExit, Undefined
  <2>. QED  BY <1>5, <2>1, <2>2, <2>3, <2>4, <2>5, <2>6, <2>7 DEF MainInv
<1>. QED
  BY <1>3, <1>6, <1>7, <1>8
     DEF DisassemblyOption, SizeOption, MissingParameter, FileArgument, EndOfOptions

-----------------------------------------------------------------------------
(* What readFile and vmInit give to compile.                               *)
LEMMA ReadFileInv == MainInv /\ readFile => MainInv'
<1> SUFFICES ASSUME MainInv, readFile PROVE MainInv'
  OBVIOUS
<1>1. /\ phase = "readFile"
      /\ UNCHANGED <<argv, i, ramSize, stackSize, listing, stage, at, address, instrs, labels, constants,
                     addresses, h, words, code, regs, pc, status, out, ram>>
  BY DEF readFile, optionVars, machineVars
<1>2. CommandLineRead'
  BY <1>1 DEF MainInv, CommandLineRead
<1>3. CASE Exit(1) /\ UNCHANGED source
  BY <1>1, <1>2, <1>3, ExitInv DEF machineVars
<1>4. CASE /\ filename \in DOMAIN Files
           /\ source' = Files[filename]
           /\ phase' = "vmInit" /\ UNCHANGED exit
  <2>1. source' \in Sources
    BY <1>4, FilesAssumption
  <2>2. PhaseAndExit'
    BY <1>1, <1>4 DEF MainInv, PhaseAndExit, Phases
  <2>3. Listing'
    BY <1>1, <1>4 DEF MainInv, Listing, IsSequence, Early
  <2>4. TypeOK'
    BY <1>1 DEF MainInv, TypeOK
  <2>5. NotCompiledYet' /\ Compiling' /\ Compiled'
    BY <1>1, <1>4, <2>1 DEF MainInv, NotCompiledYet, Compiling, Compiled
  <2>6. MachineWaits'
    BY <1>1, <1>4 DEF MainInv, MachineWaits, Early
  <2>7. Outcome'
    BY <1>1, <1>4 DEF MainInv, Outcome, PhaseAndExit, Undefined
  <2>. QED  BY <1>2, <2>2, <2>3, <2>4, <2>5, <2>6, <2>7 DEF MainInv
<1>. QED
  BY <1>3, <1>4 DEF readFile

LEMMA VmInitInv == MainInv /\ vmInit => MainInv'
<1> SUFFICES ASSUME MainInv, vmInit PROVE MainInv'
  OBVIOUS
<1>1. /\ phase = "vmInit"
      /\ UNCHANGED <<argv, i, ramSize, stackSize, listing, source, stage, at, address, instrs, labels, constants,
                     addresses, h, words, code, pc, status, out>>
  BY DEF vmInit, optionVars, compileVars
<1>2. CommandLineRead'
  BY <1>1 DEF MainInv, CommandLineRead
<1>3. CASE Exit(2) /\ UNCHANGED <<regs, ram>>
  BY <1>1, <1>2, <1>3, ExitInv DEF machineVars
<1>4. CASE Exit(Undefined) /\ ~ RamIsThere /\ UNCHANGED <<regs, ram>>
  <2>1. Exit(-2)
    BY <1>4 DEF Undefined
  <2>. QED  BY <1>1, <1>2, <1>4, <2>1, ExitInv DEF machineVars
<1>5. CASE phase' = "otherRam" /\ UNCHANGED <<regs, ram, exit>>
  <2>1. PhaseAndExit' /\ Compiling' /\ Compiled' /\ NotCompiledYet' /\ MachineWaits'
    BY <1>1, <1>5 DEF MainInv, PhaseAndExit, Phases, Compiling, Compiled, NotCompiledYet, MachineWaits, Early
  <2>2. Listing' /\ TypeOK'
    BY <1>1, <1>5 DEF MainInv, Listing, IsSequence, Early, TypeOK
  <2>3. Outcome'
    BY <1>1, <1>5 DEF MainInv, Outcome, PhaseAndExit, Undefined
  <2>. QED  BY <1>2, <2>1, <2>2, <2>3 DEF MainInv
<1>6. CASE /\ ramSize = RamSize /\ phase' = "compile" /\ UNCHANGED exit
           /\ \E fresh \in [Reg -> FreshWords] : regs' = [fresh EXCEPT ![SP] = ramSize - 1]
           /\ ram' \in FreshRam
  <2>1. regs' \in [Reg -> Word] /\ regs'[SP] = RamSize - 1
    <3>1. PICK fresh \in [Reg -> FreshWords] : regs' = [fresh EXCEPT ![SP] = RamSize - 1]
      BY <1>6
    <3>2. fresh \in [Reg -> Word]
      BY FreshWordsAssumption
    <3>3. SP \in Reg /\ RamSize - 1 \in Word
      BY NumRegsAssumption, RamSizeAssumption, WordSizeType DEF SP, Reg, Word
    <3>. QED  BY <3>1, <3>2, <3>3
  <2>2. ram' \in [Cell -> Byte]
    BY <1>6, FreshAssumption
  <2>3. AsmInit'
    BY <1>1, <1>6 DEF MainInv, NotCompiledYet, AsmInit
  <2>4. AsmInv' /\ AsmLog'
    <3>1. AsmInv'
      BY <2>3, InitInv, PTL
    <3>2. AsmLog'
      BY <2>3, InitLog, PTL
    <3>. QED  BY <3>1, <3>2
  <2>5. PhaseAndExit'
    BY <1>1, <1>6 DEF MainInv, PhaseAndExit, Phases
  <2>6. Listing'
    BY <1>1, <1>6 DEF MainInv, Listing, IsSequence, Early
  <2>7. TypeOK'
    BY <1>1, <2>1, <2>2 DEF MainInv, TypeOK
  <2>8. NotCompiledYet' /\ Compiling' /\ Compiled'
    BY <1>6, <2>1, <2>4 DEF NotCompiledYet, Compiling, Compiled
  <2>9. MachineWaits'
    BY <1>1, <1>6 DEF MainInv, MachineWaits, Early
  <2>10. Outcome'
    BY <1>1, <1>6 DEF MainInv, Outcome, PhaseAndExit, Undefined
  <2>. QED  BY <1>2, <2>5, <2>6, <2>7, <2>8, <2>9, <2>10 DEF MainInv
<1>. QED
  BY <1>3, <1>4, <1>5, <1>6 DEF vmInit

-----------------------------------------------------------------------------
(* compile, and what it returns.                                           *)
LEMMA CompileInv == MainInv /\ compile => MainInv'
<1> SUFFICES ASSUME MainInv, compile PROVE MainInv'
  OBVIOUS
<1>1. /\ phase = "compile" /\ AsmStep
      /\ UNCHANGED <<argv, i, ramSize, stackSize, listing, phase, exit, code, regs, pc, status, out>>
  BY DEF compile, optionVars, machineVars
<1>2. AsmInv /\ AsmLog /\ regs[SP] = RamSize - 1
  BY <1>1 DEF MainInv, Compiling
<1>3. AsmInv' /\ AsmLog'
  BY <1>1, <1>2, AsmStepInv, AsmStepLog
<1>4. CommandLineRead' /\ PhaseAndExit'
  BY <1>1 DEF MainInv, CommandLineRead, PhaseAndExit
<1>5. Listing'
  <2>1. listing' = <<>> /\ phase' = "compile"
    BY <1>1 DEF MainInv, Listing, Early
  <2>2. Len(words') \in Nat
    BY <1>3 DEF AsmInv, CodeEncoded
  <2>. QED  BY <2>1, <2>2, EmptySequence DEF Listing
<1>6. TypeOK'
  <2>1. ram' \in [Cell -> Byte]
    BY <1>3 DEF AsmInv, ConstantsStored
  <2>. QED  BY <1>1, <2>1 DEF MainInv, TypeOK
<1>7. NotCompiledYet' /\ Compiling' /\ Compiled'
  BY <1>1, <1>2, <1>3 DEF NotCompiledYet, Compiling, Compiled
<1>8. MachineWaits'
  BY <1>1 DEF MainInv, MachineWaits, Early
<1>9. Outcome'
  BY <1>1 DEF MainInv, Outcome, PhaseAndExit, Undefined
<1>. QED
  BY <1>4, <1>5, <1>6, <1>7, <1>8, <1>9 DEF MainInv

LEMMA CompileFailsInv == MainInv /\ CompileFails => MainInv'
<1> SUFFICES ASSUME MainInv, CompileFails PROVE MainInv'
  OBVIOUS
<1>1. /\ phase = "compile" /\ stage \in Failures
      /\ UNCHANGED <<argv, i, ramSize, stackSize, listing, source, words, machineVars, ram>>
  BY DEF CompileFails, optionVars, Unchanged, compileVars
<1>2. CommandLineRead'
  BY <1>1 DEF MainInv, CommandLineRead
<1>3. /\ stage = "rejected" => \E k \in DOMAIN source : IllFormed(source[k])
      /\ stage = "undefined" => "wild" \in FreshLinks \/ HasString
  BY <1>1 DEF MainInv, Compiling, AsmLog, EndsExplained
<1>4. HasString => ~ DocumentedFile
  BY DEF HasString, DocumentedFile
<1>5. CASE stage = "rejected"
  <2>1. Exit(32)
    BY <1>5 DEF CompileFails
  <2>. QED  BY <1>1, <1>2, <1>3, <1>5, <2>1, ExitInv
<1>6. CASE stage = "access_violation"
  <2>1. Exit(2)
    BY <1>6 DEF CompileFails
  <2>. QED  BY <1>1, <1>2, <2>1, ExitInv
<1>7. CASE stage = "undefined"
  <2>1. Exit(-2)
    BY <1>7 DEF CompileFails, Undefined
  <2>. QED  BY <1>1, <1>2, <1>3, <1>4, <1>7, <2>1, ExitInv
<1>. QED
  BY <1>1, <1>5, <1>6, <1>7 DEF Failures

LEMMA CompileReturnsInv == MainInv /\ CompileReturns => MainInv' /\ MachineIsReady'
<1> SUFFICES ASSUME MainInv, CompileReturns PROVE MainInv' /\ MachineIsReady'
  OBVIOUS
<1> DEFINE pool == [k \in 1 .. h |-> ram[k - 1]]
<1>1. /\ phase = "compile" /\ stage = "assembled" /\ phase' \in {"disassemble", "execute"}
      /\ code' = [instrs |-> words, constants |-> addresses, pool |-> pool]
      /\ regs' = [regs EXCEPT ![H] = h]
      /\ UNCHANGED <<argv, i, ramSize, stackSize, listing, exit, source, stage, at, address, instrs, labels,
                     constants, addresses, h, words, pc, status, out, ram>>
  BY DEF CompileReturns, optionVars, compileVars
<1>2. AsmInv /\ AsmLog /\ regs[SP] = RamSize - 1
  BY <1>1 DEF MainInv, Compiling
<1>3. /\ words \in Seq(Instruction) /\ addresses \in Seq(Cell) /\ h \in 0 .. RamSize
      /\ ram \in [Cell -> Byte] /\ PoolIsIntact
      /\ IsSequence(constants) /\ Len(addresses) = Len(constants)
  BY <1>1, <1>2 DEF AsmInv, AsmLog, CodeEncoded, ConstantsStored, ConstantsListed, ConstantsAddressed
<1>4. pool \in Seq(Byte) /\ Len(pool) = h /\ DOMAIN pool = 1 .. h /\ \A k \in DOMAIN pool : pool[k] = ram[k - 1]
  <2>1. \A k \in 1 .. h : k - 1 \in Cell
    BY <1>3, RamSizeAssumption DEF Cell
  <2>2. pool \in [1 .. h -> Byte] /\ h \in Nat
    BY <1>3, <2>1, RamSizeAssumption
  <2>. QED  BY <2>2
<1> HIDE DEF pool
<1>5. code' \in Program
  <2>1. Cell \subseteq Word
    BY RamSizeAssumption, WordSizeType DEF Cell, Word
  <2>2. addresses \in Seq(Word)
    BY <1>3, <2>1
  <2>. QED  BY <1>1, <1>3, <1>4, <2>2 DEF Program
<1>6. regs' \in [Reg -> Word] /\ regs'[SP] = RamSize - 1 /\ regs'[H] = h
  <2>1. regs \in [Reg -> Word] /\ SP \in Reg /\ H \in Reg /\ SP # H
    BY NumRegsAssumption DEF MainInv, TypeOK, SP, H, Reg
  <2>2. h \in Word
    BY <1>3, RamSizeAssumption, WordSizeType DEF Word
  <2>. QED  BY <1>1, <1>2, <2>1, <2>2
<1>7. CommandLineRead' /\ PhaseAndExit'
  BY <1>1 DEF MainInv, CommandLineRead, PhaseAndExit, Phases
<1>8. Listing'
  BY <1>1 DEF MainInv, Listing, Early, IsSequence
<1>9. TypeOK'
  BY <1>1, <1>5, <1>6 DEF MainInv, TypeOK
<1>10. NotCompiledYet' /\ Compiling'
  BY <1>1 DEF NotCompiledYet, Compiling
<1>11. Compiled'
  <2>1. \A k \in DOMAIN source : ~ IllFormed(source[k])
    BY <1>1, <1>2, AssembledIsWellFormed
  <2>2. DocumentedFile => \A j \in DOMAIN words : OperandsFit(words[j], addresses)
    BY <1>1, <1>2, AssembledWordsFit
  <2>3. \A w, table : OperandsFit(w, table)' <=> OperandsFit(w, table)
    BY DEF OperandsFit, SecondOperandFits
  <2>4. code'.instrs = words /\ code'.constants = addresses
    BY <1>1
  <2>5. DocumentedFile' => WordsFit'
    BY <1>1, <2>2, <2>4, SameFile DEF WordsFit
  <2>6. (\A k \in DOMAIN source : ~ IllFormed(source[k]))'
    BY <1>1, <2>1, SameFile
  <2>. QED  BY <1>1, <2>4, <2>5, <2>6 DEF Compiled
<1>12. pc = 0 /\ status = "running" /\ out = <<>>
  BY <1>1 DEF MainInv, MachineWaits, Early
<1>13. MachineIsReady'
  <2>1. code'.pool = pool /\ code'.constants = addresses
    BY <1>1
  <2>2. \A k \in DOMAIN constants : addresses[k] + Len(constants[k].bytes) <= h
    <3>1. DOMAIN constants = DOMAIN addresses
      BY <1>3, SequenceType
    <3>. QED  BY <1>3, <3>1 DEF PoolIsIntact
  <2>3. \A k \in DOMAIN code'.pool : ram'[k - 1] = code'.pool[k]
    BY <1>1, <1>4, <2>1
  <2>4. \A k \in DOMAIN constants' : code'.constants[k] + Len(constants'[k].bytes) <= regs'[H]
    BY <1>1, <1>6, <2>1, <2>2
  <2>5. regs'[H] = Len(code'.pool)
    BY <1>4, <1>6, <2>1
  <2>. QED  BY <1>1, <1>5, <1>6, <1>12, <2>3, <2>4, <2>5 DEF MachineIsReady
<1>14. MachineWaits'
  BY <1>1, <1>12, <1>13 DEF MachineWaits, Early
<1>15. Outcome'
  <2>1. exit' = -1 /\ status' # "undefined"
    BY <1>1, <1>12 DEF MainInv, PhaseAndExit
  <2>. QED  BY <2>1 DEF Outcome, Undefined
<1>. QED
  BY <1>7, <1>8, <1>9, <1>10, <1>11, <1>13, <1>14, <1>15 DEF MainInv

-----------------------------------------------------------------------------
(* disassemble and vmExecute on what compile returned.                     *)
LEMMA DisassembleInv == MainInv /\ disassemble => MainInv'
<1> SUFFICES ASSUME MainInv, disassemble PROVE MainInv'
  OBVIOUS
<1> DEFINE w == code.instrs[Len(listing) + 1]
<1>1. /\ phase = "disassemble" /\ Len(listing) < Len(code.instrs)
      /\ UNCHANGED <<argv, i, ramSize, stackSize, source, stage, at, address, instrs, labels, constants,
                     addresses, h, words, code, regs, pc, status, out, ram>>
  BY DEF disassemble, optionVars, compileVars, machineVars
<1>2. CommandLineRead'
  BY <1>1 DEF MainInv, CommandLineRead
<1>3. IsSequence(listing) /\ Len(listing) \in Nat /\ Len(code.instrs) = Len(words)
  BY <1>1, SequenceType DEF MainInv, Listing, Compiled
<1>4. CASE Exit(Undefined) /\ ~ IsDefined(w, code.constants) /\ UNCHANGED listing
  <2>1. Len(listing) + 1 \in DOMAIN code.instrs
    <3>1. code.instrs \in Seq(Instruction)
      BY DEF MainInv, TypeOK, Program
    <3>. QED  BY <1>1, <1>3, <3>1
  <2>2. DocumentedFile => OperandsFit(w, code.constants)
    BY <1>1, <2>1 DEF MainInv, Compiled, WordsFit
  <2>3. ~ DocumentedFile
    BY <1>4, <2>2, FittingIsDefined
  <2>4. Exit(-2)
    BY <1>4 DEF Undefined
  <2>. QED  BY <1>1, <1>2, <1>4, <2>3, <2>4, ExitInv DEF machineVars
<1>5. CASE listing' = Append(listing, Listed(w, code.constants)) /\ UNCHANGED <<phase, exit>>
  <2>1. Listing'
    <3>1. IsSequence(listing') /\ Len(listing') = Len(listing) + 1
      BY <1>3, <1>5, AppendElement
    <3>2. Len(listing') <= Len(words')
      <4>1. words' = words /\ Len(words) \in Nat
        <5>1. code.instrs \in Seq(Instruction)
          BY DEF MainInv, TypeOK, Program
        <5>. QED  BY <1>1, <1>3, <5>1
      <4>. QED  BY <1>1, <1>3, <3>1, <4>1
    <3>3. phase' \notin Early
      BY <1>1, <1>5 DEF Early
    <3>. QED  BY <3>1, <3>2, <3>3 DEF Listing
  <2>2. PhaseAndExit'
    BY <1>5 DEF MainInv, PhaseAndExit
  <2>3. TypeOK'
    BY <1>1 DEF MainInv, TypeOK
  <2>4. NotCompiledYet' /\ Compiling'
    BY <1>1, <1>5 DEF NotCompiledYet, Compiling
  <2>5. Compiled'
    BY <1>1, <1>5, SameFile DEF MainInv, Compiled, WordsFit, OperandsFit, SecondOperandFits
  <2>6. MachineWaits'
    BY <1>1, <1>5 DEF MainInv, MachineWaits, MachineIsReady
  <2>7. Outcome'
    BY <1>1, <1>5 DEF MainInv, Outcome, PhaseAndExit, Undefined
  <2>. QED  BY <1>2, <2>1, <2>2, <2>3, <2>4, <2>5, <2>6, <2>7 DEF MainInv
<1>. QED
  BY <1>4, <1>5 DEF disassemble

LEMMA EndOfListingInv == MainInv /\ EndOfListing => MainInv'
<1> SUFFICES ASSUME MainInv, EndOfListing PROVE MainInv'
  OBVIOUS
<1>1. /\ phase = "disassemble" /\ phase' = "execute" /\ exit' = exit
      /\ UNCHANGED <<argv, i, ramSize, stackSize, listing, source, stage, at, address, instrs, labels, constants,
                     addresses, h, words, code, regs, pc, status, out, ram>>
  BY DEF EndOfListing, Unchanged, optionVars, compileVars, machineVars
<1>2. CommandLineRead' /\ PhaseAndExit'
  BY <1>1 DEF MainInv, CommandLineRead, PhaseAndExit, Phases
<1>3. Listing' /\ TypeOK'
  BY <1>1 DEF MainInv, Listing, IsSequence, Early, TypeOK
<1>4. NotCompiledYet' /\ Compiling' /\ MachineWaits'
  BY <1>1 DEF NotCompiledYet, Compiling, MachineWaits, Early
<1>5. Compiled'
  BY <1>1, SameFile DEF MainInv, Compiled, WordsFit, OperandsFit, SecondOperandFits
<1>6. Outcome'
  <2>1. exit' = -1 /\ status' # "undefined"
    BY <1>1 DEF MainInv, PhaseAndExit, MachineWaits
  <2>. QED  BY <2>1 DEF Outcome, Undefined
<1>. QED
  BY <1>2, <1>3, <1>4, <1>5, <1>6 DEF MainInv

LEMMA VmExecuteInv == MainInv /\ vmExecute => MainInv'
<1> SUFFICES ASSUME MainInv, vmExecute PROVE MainInv'
  OBVIOUS
<1>1. /\ phase = "execute" /\ Step
      /\ UNCHANGED <<argv, i, ramSize, stackSize, phase, exit, listing, source, stage, at, address, instrs,
                     labels, constants, addresses, h, words>>
  BY DEF vmExecute, optionVars, compileVars
<1>2. [Next]_vars
  BY <1>1 DEF Next
<1>3. TypeOK' /\ code' = code
  BY <1>2, NextType, CodeIsConstant DEF MainInv
<1>4. CommandLineRead' /\ PhaseAndExit' /\ Listing'
  BY <1>1 DEF MainInv, CommandLineRead, PhaseAndExit, Listing, IsSequence
<1>5. NotCompiledYet' /\ Compiling' /\ MachineWaits'
  BY <1>1 DEF NotCompiledYet, Compiling, MachineWaits, Early
<1>6. Compiled'
  BY <1>1, <1>3, SameFile DEF MainInv, Compiled, WordsFit, OperandsFit, SecondOperandFits
<1>7. Outcome'
  <2>1. exit' = -1
    BY <1>1 DEF MainInv, PhaseAndExit
  <2>2. ASSUME DocumentedFile PROVE status' # "undefined"
    <3>1. WordsFit /\ status # "undefined"
      BY <1>1, <2>2 DEF MainInv, Compiled, Outcome
    <3>2. WellFormed(code)
      BY <3>1, FittingIsWellFormed DEF WordsFit, WellFormed
    <3>. QED  BY <1>2, <3>1, <3>2, StepSafe DEF MainInv
  <2>. QED  BY <1>1, <2>1, <2>2, SameFile DEF Outcome, Undefined
<1>. QED
  BY <1>3, <1>4, <1>5, <1>6, <1>7 DEF MainInv

LEMMA EndOfMainInv == MainInv /\ EndOfMain => MainInv'
<1> SUFFICES ASSUME MainInv, EndOfMain PROVE MainInv'
  OBVIOUS
<1>1. /\ phase = "execute" /\ status # "running"
      /\ UNCHANGED <<argv, i, ramSize, stackSize, listing, source, words, machineVars, ram>>
  BY DEF EndOfMain, optionVars, Unchanged, compileVars
<1>2. CommandLineRead'
  BY <1>1 DEF MainInv, CommandLineRead
<1>3. CASE status = "exited"
  <2>1. Exit(0)
    BY <1>3 DEF EndOfMain
  <2>. QED  BY <1>1, <1>2, <2>1, ExitInv
<1>4. CASE status = "undefined"
  <2>1. Exit(-2)
    BY <1>4 DEF EndOfMain, Undefined
  <2>2. ~ DocumentedFile
    BY <1>1, <1>4 DEF MainInv, Outcome
  <2>. QED  BY <1>1, <1>2, <2>1, <2>2, ExitInv
<1>5. CASE status \notin {"exited", "undefined"}
  <2>1. Exit(2) \/ Exit(-3)
    BY <1>5 DEF EndOfMain, Trapped
  <2>. QED  BY <1>1, <1>2, <2>1, ExitInv
<1>. QED
  BY <1>3, <1>4, <1>5

LEMMA MainStutterInv == MainInv /\ UNCHANGED mainVars => MainInv'
<1> SUFFICES ASSUME MainInv, UNCHANGED mainVars PROVE MainInv'
  OBVIOUS
<1>1. UNCHANGED <<argv, i, ramSize, stackSize, phase, exit, listing, source, stage, at, address, instrs, labels,
                  constants, addresses, h, words, code, regs, pc, status, out, ram>>
  BY DEF mainVars, optionVars, compileVars, machineVars
<1>2. CommandLineRead' /\ PhaseAndExit' /\ Listing' /\ TypeOK' /\ NotCompiledYet'
  BY <1>1 DEF MainInv, CommandLineRead, PhaseAndExit, Listing, IsSequence, TypeOK, NotCompiledYet
<1>3. Compiling'
  <2>1. AsmInv => AsmInv'
    BY <1>1, StutterInv DEF asmVars
  <2>2. AsmLog => AsmLog'
    BY <1>1, StutterLog DEF asmVars
  <2>. QED  BY <1>1, <2>1, <2>2 DEF MainInv, Compiling
<1>4. Compiled'
  BY <1>1, SameFile DEF MainInv, Compiled, WordsFit, OperandsFit, SecondOperandFits
<1>5. MachineWaits'
  BY <1>1 DEF MainInv, MachineWaits, MachineIsReady
<1>6. Outcome'
  <2>1. RamIsThere' = RamIsThere
    BY <1>1 DEF RamIsThere, Allocated
  <2>. QED  BY <1>1, <2>1, SameFile DEF MainInv, Outcome
<1>. QED
  BY <1>2, <1>3, <1>4, <1>5, <1>6 DEF MainInv

-----------------------------------------------------------------------------
LEMMA MainNextInv == MainInv /\ [MainNext]_mainVars => MainInv'
BY OptionsInv, ReadFileInv, VmInitInv, CompileInv, CompileFailsInv, CompileReturnsInv, DisassembleInv,
   EndOfListingInv, VmExecuteInv, EndOfMainInv, MainStutterInv DEF MainNext, MainStep, Over

(* Whatever the command line and the file, each phase of main finds what   *)
(* it relies on: parse an empty program and a RAM, parseInstructions the   *)
(* tables of the passes before, vmExecute a program in its bounds.         *)
THEOREM MainInvHolds == MainSpec => []MainInv
BY InitMainInv, MainNextInv, PTL DEF MainSpec

-----------------------------------------------------------------------------
(* main goes forward: to a later phase, or within its phase.               *)
GoesOn == PhaseNumber[phase'] > PhaseNumber[phase]
TurnTaken ==
  GoesOn \/ (phase' = phase /\ (phase = "execute" \/ PhaseTurnsLeft' \in 0 .. PhaseTurnsLeft - 1))

LEMMA Forward ==
  ASSUME \/ phase = "options" /\ phase' \in {"readFile", "over"}
         \/ phase = "readFile" /\ phase' \in {"vmInit", "over"}
         \/ phase = "vmInit" /\ phase' \in {"compile", "over", "otherRam"}
         \/ phase = "compile" /\ phase' \in {"disassemble", "execute", "over"}
         \/ phase = "disassemble" /\ phase' \in {"execute", "over"}
         \/ phase = "execute" /\ phase' = "over"
  PROVE  GoesOn
BY DEF GoesOn, PhaseNumber

LEMMA OptionTurn ==
  ASSUME MainInv, DisassemblyOption \/ SizeOption \/ MissingParameter \/ FileArgument \/ EndOfOptions
  PROVE  TurnTaken
<1>1. Len(argv) \in Nat /\ i \in 1 .. Len(argv) + 1 /\ argv' = argv /\ phase = "options"
  BY CommandLinesAssumption, SequenceType
  DEF MainInv, CommandLineRead, DisassemblyOption, SizeOption, MissingParameter, FileArgument,
    EndOfOptions, InOptions, Unchanged
<1>2. CASE DisassemblyOption \/ SizeOption \/ FileArgument
  <2>1. /\ phase' = "options"
        /\ \/ i <= Len(argv) /\ i' = i + 1
           \/ i < Len(argv) /\ i' = i + 2
    BY <1>1, <1>2 DEF DisassemblyOption, SizeOption, FileArgument, InOptions
  <2>2. PhaseTurnsLeft = Len(argv) + 1 - i /\ PhaseTurnsLeft' = Len(argv) + 1 - i'
    BY <1>1, <2>1 DEF PhaseTurnsLeft
  <2>. QED  BY <1>1, <2>1, <2>2 DEF TurnTaken
<1>3. CASE MissingParameter \/ EndOfOptions
  <2>1. phase' \in {"readFile", "over"}
    BY <1>3 DEF MissingParameter, EndOfOptions, Exit
  <2>. QED  BY <1>1, <2>1, Forward DEF TurnTaken
<1>. QED
  BY <1>2, <1>3

LEMMA CompileTurn ==
  ASSUME MainInv, compile
  PROVE  TurnTaken
<1>1. AsmInv /\ AsmStep /\ phase = "compile" /\ phase' = phase
  BY DEF MainInv, Compiling, compile
<1>2. AsmTurnsLeft' \in 0 .. AsmTurnsLeft - 1
  BY <1>1, AsmTurnAdvances
<1>3. PhaseTurnsLeft = AsmTurnsLeft /\ PhaseTurnsLeft' = AsmTurnsLeft'
  BY <1>1, Zenon DEF PhaseTurnsLeft
<1>. QED
  BY <1>1, <1>2, <1>3 DEF TurnTaken

LEMMA DisassembleTurn ==
  ASSUME MainInv, disassemble
  PROVE  TurnTaken
<1>1. phase = "disassemble" /\ Len(listing) < Len(code.instrs) /\ code' = code
  BY DEF disassemble, machineVars
<1>2. IsSequence(listing) /\ Len(listing) \in Nat /\ Len(code.instrs) \in Nat
  <2>1. code.instrs \in Seq(Instruction)
    BY DEF MainInv, TypeOK, Program
  <2>. QED  BY <2>1, SequenceType DEF MainInv, Listing
<1>3. CASE Exit(Undefined)
  BY <1>1, <1>3, Forward DEF Exit, TurnTaken
<1>4. CASE ~ Exit(Undefined)
  <2>1. phase' = phase /\ \E line : listing' = Append(listing, line)
    BY <1>4 DEF disassemble
  <2>2. Len(listing') = Len(listing) + 1
    BY <1>2, <2>1, AppendElement
  <2>3. /\ PhaseTurnsLeft = Len(code.instrs) - Len(listing)
        /\ PhaseTurnsLeft' = Len(code.instrs) - Len(listing')
    BY <1>1, <2>1 DEF PhaseTurnsLeft
  <2>. QED  BY <1>1, <1>2, <2>1, <2>2, <2>3 DEF TurnTaken
<1>. QED
  BY <1>3, <1>4

LEMMA PhaseTurn ==
  ASSUME MainInv, MainStep
  PROVE  TurnTaken
<1>1. CASE readFile
  BY <1>1, Forward DEF readFile, Exit, TurnTaken
<1>2. CASE vmInit
  BY <1>2, Forward DEF vmInit, Exit, TurnTaken
<1>3. CASE CompileFails
  BY <1>3, Forward DEF CompileFails, Exit, TurnTaken
<1>4. CASE CompileReturns
  BY <1>4, Forward DEF CompileReturns, TurnTaken
<1>5. CASE EndOfListing
  BY <1>5, Forward DEF EndOfListing, TurnTaken
<1>6. CASE vmExecute
  BY <1>6 DEF vmExecute, TurnTaken
<1>7. CASE EndOfMain
  BY <1>7, Forward DEF EndOfMain, Exit, TurnTaken
<1>. QED
  BY <1>1, <1>2, <1>3, <1>4, <1>5, <1>6, <1>7, OptionTurn, CompileTurn, DisassembleTurn DEF MainStep

(* Whatever the command line and the file, main never goes back to an      *)
(* earlier phase, and in each of its phases but the execution a number of  *)
(* turns falls: the arguments, the file and the program are of any length, *)
(* and main comes to their end.                                            *)
THEOREM PhasesAdvance == MainSpec => EveryPhaseAdvances
<1>1. MainInv /\ [MainNext]_mainVars => [TurnTaken]_mainVars
  BY PhaseTurn DEF MainNext, Over
<1>. QED
  BY <1>1, MainInvHolds, PTL DEF MainSpec, EveryPhaseAdvances, TurnTaken, GoesOn

(* The sizes are size_t, the options are read within argv, the listing has  *)
(* at most a line for each word, there is an exit code if and only if the  *)
(* process is over, and registers and RAM hold words and bytes throughout. *)
THEOREM MainTypeCorrect == MainSpec => []MainTypeOK
<1>1. MainInv => MainTypeOK
  BY DEF MainInv, MainTypeOK, CommandLineRead, PhaseAndExit, Listing, TypeOK, Compiled
<1>. QED
  BY <1>1, MainInvHolds, PTL

(* However main gets to vmExecute, with a listing or without one: the      *)
(* machine it starts has $sp at the last byte, $h at the end of the        *)
(* constants, and the constants where the table of addresses says.         *)
THEOREM ReadyMachineHandedOver == MainSpec => HandsOverAReadyMachine
<1>1. MainInv /\ MainInv' /\ [MainNext]_mainVars =>
        [phase # "execute" /\ phase' = "execute" => MachineIsReady']_mainVars
  <2> SUFFICES ASSUME MainInv, MainNext, phase # "execute", phase' = "execute" PROVE MachineIsReady'
    OBVIOUS
  <2>1. CompileReturns \/ EndOfListing
    BY DEF MainNext, MainStep, Over, Exit, DisassemblyOption, SizeOption, MissingParameter, FileArgument,
           EndOfOptions, readFile, vmInit, compile, CompileFails, disassemble, vmExecute, EndOfMain, mainVars
  <2>2. CASE EndOfListing
    <3>1. /\ phase = "disassemble"
          /\ UNCHANGED <<constants, code, regs, pc, status, out, ram>>
      BY <2>2 DEF EndOfListing, Unchanged, compileVars, machineVars
    <3>. QED  BY <3>1 DEF MainInv, MachineWaits, MachineIsReady
  <2>3. CASE CompileReturns
    BY <2>3, CompileReturnsInv
  <2>. QED  BY <2>1, <2>2, <2>3
<1>. QED
  BY <1>1, MainInvHolds, PTL DEF MainSpec, HandsOverAReadyMachine

(* An exit with code 32 is the fault of a line of the file, and a program  *)
(* is listed or started only if none of its lines is ill-formed.           *)
THEOREM IllFormedFilesRefused == MainSpec => []RefusesIllFormedFiles
<1>1. MainInv => RefusesIllFormedFiles
  BY DEF MainInv, Compiled, Outcome, RefusesIllFormedFiles
<1>. QED
  BY <1>1, MainInvHolds, PTL

(* If malloc leaves no wild pointer behind the last label or constant, no  *)
(* file of documented lines makes the process leave an allocation, neither *)
(* in compile nor in disassemble nor in vmExecute, however long it runs.   *)
THEOREM DocumentedProgramsSafe ==
  ASSUME "wild" \notin FreshLinks
  PROVE  MainSpec => []DocumentedProgramsAreSafe
<1>1. MainInv => DocumentedProgramsAreSafe
  BY DEF MainInv, Outcome, DocumentedFile, DocumentedProgramsAreSafe
<1>. QED
  BY <1>1, MainInvHolds, PTL
-----------------------------------------------------------------------------
(* While disassemble runs, the program is the one compile made, word by    *)
(* word, and what compile knew of it is still true.                        *)
Disassembling ==
  phase = "disassemble" =>
    AsmInv /\ AsmLog /\ stage = "assembled" /\ code.instrs = words /\ code.constants = addresses

ListingInv == Disassembling /\ ListingShowsProgram

LEMMA ListingKept ==
  ASSUME ListingShowsProgram, UNCHANGED <<listing, source, code, labels, constants, addresses>>
  PROVE  ListingShowsProgram'
<1>1. \A shown, line, w : Shows(shown, line, w)' <=> Shows(shown, line, w)
  BY DEF Shows
<1>2. Codes' = Codes
  BY DEF Codes
<1>. QED
  BY <1>1, <1>2 DEF ListingShowsProgram

(* The next line of the listing is the one of the next word, and the word  *)
(* the one of the next line of code.                                       *)
LEMMA NextIsListed ==
  ASSUME MainInv, ListingInv, disassemble, listing' # listing
  PROVE  ListingShowsProgram'
<1> DEFINE j == Len(listing) + 1
<1>1. /\ phase = "disassemble" /\ Len(listing) < Len(code.instrs)
      /\ UNCHANGED <<source, labels, constants, addresses, words, code>>
      /\ IsDefined(code.instrs[j], code.constants)
      /\ listing' = Append(listing, Listed(code.instrs[j], code.constants))
  BY DEF disassemble, compileVars, machineVars
<1>2. AsmInv /\ AsmLog /\ stage = "assembled" /\ code.instrs = words /\ code.constants = addresses
  BY <1>1 DEF ListingInv, Disassembling
<1>3. IsSequence(listing) /\ Len(listing) \in Nat /\ DOMAIN listing = 1 .. Len(listing)
  BY SequenceType DEF MainInv, Listing
<1>4. TablesFit /\ Position /\ WordsHaveCode
  BY <1>2, InvTablesFit DEF AsmInv, AsmLog
<1>5. j \in DOMAIN words /\ j - 1 = Len(listing) /\ j - 1 + 1 = j
  <2>1. words \in Seq(Instruction)
    BY <1>2 DEF AsmInv, CodeEncoded
  <2>2. DOMAIN words = 1 .. Len(words) /\ Len(words) \in Nat
    BY <2>1
  <2>3. Len(listing) < Len(words)
    BY <1>1, <1>2
  <2>. QED  BY <1>3, <2>2, <2>3
<1>6. CodeRead - 1 = Len(source) /\ DOMAIN source = 1 .. Len(source)
  BY <1>2, <1>4, SourceIsSource DEF CodeRead
<1> HIDE DEF j
<1>7. PICK c \in 1 .. Len(source) : source[c].kind = "code" /\ LinesAbove(source, "code", c) = j - 1
  BY <1>2, <1>4, <1>5, <1>6 DEF WordsHaveCode
<1>8. c \in Codes
  BY <1>6, <1>7 DEF Codes
<1>9. Accepted(source[c]) /\ words[j] = Encode(source[c], labels, constants)
  <2>1. words[j] = WordOf(c)
    BY <1>5, <1>7 DEF WordOf
  <2>. QED  BY <1>2, <1>8, <2>1, CodeIsEncoded
<1>10. Shows(Listed(words[j], addresses), source[c], words[j])
  BY <1>1, <1>2, <1>4, <1>9, ListedShows
<1>11. /\ Len(listing') = j /\ DOMAIN listing' = 1 .. j
       /\ \A k \in DOMAIN listing : listing'[k] = listing[k]
       /\ listing'[j] = Listed(words[j], addresses)
  <2>1. /\ IsSequence(listing') /\ Len(listing') = Len(listing) + 1
        /\ \A k \in DOMAIN listing : listing'[k] = listing[k]
        /\ listing'[Len(listing) + 1] = Listed(words[j], addresses)
    BY <1>1, <1>2, <1>3, AppendElement DEF j
  <2>. QED  BY <2>1, SequenceType DEF j
<1>12. \A shown, line, w : Shows(shown, line, w)' <=> Shows(shown, line, w)
  BY <1>1 DEF Shows
<1>13. Codes' = Codes
  BY <1>1 DEF Codes
<1>14. ASSUME NEW k \in DOMAIN listing'
       PROVE  \E d \in Codes : LinesAbove(source, "code", d) = k - 1 /\ Shows(listing'[k], source[d], code.instrs[k])
  <2>1. CASE k = j
    BY <1>2, <1>7, <1>8, <1>10, <1>11, <2>1
  <2>2. CASE k # j
    <3>1. k \in DOMAIN listing /\ listing'[k] = listing[k]
      BY <1>3, <1>5, <1>11, <2>2
    <3>. QED  BY <3>1 DEF ListingInv, ListingShowsProgram
  <2>. QED  BY <2>1, <2>2
<1>. QED
  BY <1>1, <1>12, <1>13, <1>14 DEF ListingShowsProgram

LEMMA MainNextListing == MainInv /\ ListingInv /\ [MainNext]_mainVars => ListingInv'
<1> SUFFICES ASSUME MainInv, ListingInv, [MainNext]_mainVars PROVE ListingInv'
  OBVIOUS
<1>1. CASE DisassemblyOption \/ SizeOption \/ MissingParameter \/ FileArgument \/ EndOfOptions
           \/ readFile \/ vmInit \/ compile \/ CompileFails
  <2>1. phase \in Early /\ listing' = listing /\ phase' # "disassemble"
    BY <1>1 DEF Early, DisassemblyOption, SizeOption, MissingParameter, FileArgument, EndOfOptions, InOptions,
                readFile, vmInit, compile, CompileFails, Unchanged, Exit
  <2>2. listing' = <<>>
    BY <2>1 DEF MainInv, Listing
  <2>3. ListingShowsProgram'
    BY <2>2, EmptySequence DEF ListingShowsProgram
  <2>. QED  BY <2>1, <2>3 DEF ListingInv, Disassembling
<1>2. CASE CompileReturns
  <2>1. /\ phase = "compile" /\ stage = "assembled" /\ listing' = listing
        /\ code' = [instrs |-> words, constants |-> addresses, pool |-> [k \in 1 .. h |-> ram[k - 1]]]
        /\ UNCHANGED <<source, stage, at, address, instrs, labels, constants, addresses, h, words, ram>>
    BY <1>2 DEF CompileReturns, compileVars
  <2>2. UNCHANGED asmVars
    BY <2>1 DEF asmVars
  <2>3. AsmInv' /\ AsmLog'
    BY <2>1, <2>2, StutterInv, StutterLog DEF MainInv, Compiling
  <2>4. listing' = <<>>
    BY <2>1 DEF MainInv, Listing, Early
  <2>5. ListingShowsProgram'
    BY <2>4, EmptySequence DEF ListingShowsProgram
  <2>. QED  BY <2>1, <2>3, <2>5 DEF ListingInv, Disassembling
<1>3. CASE disassemble
  <2>1. /\ phase = "disassemble"
        /\ UNCHANGED <<source, stage, at, address, instrs, labels, constants, addresses, h, words, ram, code>>
    BY <1>3 DEF disassemble, compileVars, machineVars
  <2>2. UNCHANGED asmVars
    BY <2>1 DEF asmVars
  <2>3. AsmInv' /\ AsmLog'
    BY <2>1, <2>2, StutterInv, StutterLog DEF ListingInv, Disassembling
  <2>4. Disassembling'
    BY <2>1, <2>3 DEF ListingInv, Disassembling
  <2>5. ListingShowsProgram'
    BY <1>3, <2>1, NextIsListed, ListingKept DEF ListingInv
  <2>. QED  BY <2>4, <2>5 DEF ListingInv
<1>4. CASE EndOfListing \/ vmExecute \/ EndOfMain
  <2>1. phase' # "disassemble" /\ UNCHANGED <<listing, source, labels, constants, addresses>>
    BY <1>4 DEF EndOfListing, vmExecute, EndOfMain, Unchanged, compileVars, Exit
  <2>2. code' = code
    BY <1>4, CodeIsConstant DEF EndOfListing, vmExecute, EndOfMain, Unchanged, machineVars, Next
  <2>3. ListingShowsProgram'
    BY <2>1, <2>2, ListingKept DEF ListingInv
  <2>. QED  BY <2>1, <2>3 DEF ListingInv, Disassembling
<1>5. CASE UNCHANGED mainVars
  <2>1. UNCHANGED <<phase, listing, source, stage, at, address, instrs, labels, constants, addresses, h, words,
                    ram, code>>
    BY <1>5 DEF mainVars, compileVars, machineVars
  <2>2. UNCHANGED asmVars
    BY <2>1 DEF asmVars
  <2>3. Disassembling'
    BY <2>1, <2>2, StutterInv, StutterLog DEF ListingInv, Disassembling
  <2>4. ListingShowsProgram'
    BY <2>1, ListingKept DEF ListingInv
  <2>. QED  BY <2>3, <2>4 DEF ListingInv
<1>. QED
  BY <1>1, <1>2, <1>3, <1>4, <1>5 DEF MainNext, MainStep, Over

(* Whatever the program, each line disassemble prints has the opcode of    *)
(* the line of code it stands for and the addresses of the constant or     *)
(* label that line names; and a listed line of registers and immediates,   *)
(* typed in again, is encoded as the word it was printed for.              *)
THEOREM ListingIsShown == MainSpec => []ListingShowsProgram
<1>1. MainInit => ListingInv
  BY EmptySequence DEF MainInit, ListingInv, Disassembling, ListingShowsProgram
<1>2. ListingInv => ListingShowsProgram
  BY DEF ListingInv
<1>. QED
  BY <1>1, <1>2, MainNextListing, MainInvHolds, PTL DEF MainSpec
=============================================================================
