------------------------------ MODULE Encoding ------------------------------
(***************************************************************************)
(* How src/assembler.c turns the arguments of one assembly line into the   *)
(* bits of an instruction word: parseArg1, parseArg2, parseJmp and         *)
(* parseImmediateNumber, and the `|' of parseInstructions.                 *)
(*                                                                         *)
(* An argument is a record whose kind is what its first character says:    *)
(*   [kind: "reg", reg]   $a      [kind: "addr", reg]  &$a                 *)
(*   [kind: "imm", base, digits, neg]   #12, #0x0c, #0b1100, #-12          *)
(*   [kind: "label", name]  :loop [kind: "const", name]  .text             *)
(*   [kind: "other"]      anything else, a bare number for instance        *)
(* A register index of -1 is a name cpuGetRegisterIndex does not know.     *)
(*                                                                         *)
(* Labels and constants are sequences in the order of their definitions.   *)
(***************************************************************************)
EXTENDS Bytecode, Sequences, SequencesExt

(* The first definition of a name wins: findLabel, findConstantIndex.      *)
Defined(name, table) == \E k \in DOMAIN table : table[k].name = name

FirstIndex(name, table) ==
  CHOOSE k \in DOMAIN table : /\ table[k].name = name
                              /\ \A j \in DOMAIN table : table[j].name = name => k <= j

findConstantIndexFromOne(name, constants) == FirstIndex(name, constants)    \* mutant
findConstantIndex(name, constants) == FirstIndex(name, constants) - 1

-----------------------------------------------------------------------------
(* strtol of a run of digits, in the base chosen from the prefix.          *)
Numeral(base, digits) == FoldLeft(LAMBDA acc, d : base * acc + d, 0, digits)

Negated(neg, n) == IF neg THEN - n ELSE n

(* parseImmediateNumber: only the upper bound is tested.                   *)
parseImmediateNumber(arg) == Negated(arg.neg, Numeral(arg.base, arg.digits))

ImmediateRejectedAbove2To19(value) == value > MAX_IMMEDIATE_VALUE + 1    \* mutant
ImmediateRejected(value) == value > MAX_IMMEDIATE_VALUE

-----------------------------------------------------------------------------
parseArg1Rejected(arg) == arg.kind \in {"reg", "addr"} => arg.reg < 0

parseArg1(arg) ==
  ARG1_SHIFT * (arg.reg + IF arg.kind = "addr" THEN ARG1_ADDR_MASK ELSE 0)

parseArg2Rejected(arg, labels, constants) ==
  CASE arg.kind = "addr"  -> arg.reg < 0
    [] arg.kind = "label" -> ~ Defined(arg.name, labels)
    [] arg.kind = "imm"   -> ImmediateRejected(parseImmediateNumber(arg))
    [] arg.kind = "const" -> ~ Defined(arg.name, constants)
    [] arg.kind \in {"reg", "other"} -> FALSE

(* `ARG2_IMM_MASK | value': the bit is added, unless a negative number has *)
(* it.  An argument of no known form is encoded as constant 0.             *)
ImmediateBits(value) == IF IS_ARG2_IMM(value) THEN value ELSE value + ARG2_IMM_MASK

parseArg2(arg, labels, constants) ==
  CASE arg.kind = "reg" /\ arg.reg >= 0 -> ARG2_REG_MASK + arg.reg
    [] arg.kind = "addr"  -> ARG2_REG_MASK + ARG2_ADDR_MASK + arg.reg
    [] arg.kind = "label" -> ImmediateBits(labels[FirstIndex(arg.name, labels)].address)
    [] arg.kind = "imm"   -> ImmediateBits(parseImmediateNumber(arg))
    [] arg.kind = "const" -> findConstantIndex(arg.name, constants)
    [] arg.kind = "other" \/ (arg.kind = "reg" /\ arg.reg < 0) -> 0

(* parseJmp skips the '#' and hands the rest to parseImmediateNumber,      *)
(* which skips one more character: the first digit, or the 0 of a prefix,  *)
(* after which strtol meets a letter and stops at 0.                       *)
JmpImmediate(arg) ==
  IF arg.base = 10 /\ ~ arg.neg THEN Numeral(10, Tail(arg.digits))
  ELSE IF arg.base = 10 THEN Numeral(10, arg.digits)
  ELSE 0

parseJmpRejected(arg, labels) ==
  CASE arg.kind = "label" -> ~ Defined(arg.name, labels)
    [] arg.kind = "imm"   -> ImmediateRejected(JmpImmediate(arg))
    [] arg.kind \in {"reg", "addr", "const", "other"} -> TRUE

parseJmp(arg, labels) ==
  IF arg.kind = "label" THEN labels[FirstIndex(arg.name, labels)].address
  ELSE JmpImmediate(arg)

-----------------------------------------------------------------------------
(* `opcode << 26' in an int32_t: from 32 on the sign bit is set.           *)
OpcodeBits(op) == OPCODE_SHIFT * (IF op >= 32 THEN op - 64 ELSE op)

(* `a | b' in a field of five bits.                                        *)
OrBits(a, b) ==
  CHOOSE v \in 0 .. 31 : \A bit \in {1, 2, 4, 8, 16} :
    (v \div bit) % 2 = 1 <=> (a \div bit) % 2 = 1 \/ (b \div bit) % 2 = 1

(* instruction | arg1 | arg2: the fields do not overlap, except that a     *)
(* negative arg2 has the sign bit and bits in all the fields.              *)
Combine(op, arg1, arg2) ==
  IF arg2 >= 0 THEN OpcodeBits(op) + arg1 + arg2
  ELSE OPCODE_SHIFT * (OrBits(op, OPCODE(arg2)) - 32)
         + ARG1_SHIFT * OrBits(arg1 \div ARG1_SHIFT, arg2 \div ARG1_SHIFT)
         + (arg2 % ARG1_SHIFT)

(* One line: an opcode, or -1 for a name opcodeFromString does not know,   *)
(* and the sequence of its arguments.                                      *)
Jumps(line) == line.op \in {JMP, CALL}

FirstArgRejected(line) ==
  \/ line.op < 0
  \/ Len(line.args) # opcodeNumArgs(line.op)
  \/ Len(line.args) = 2 /\ parseArg1Rejected(line.args[1])

LineRejected(line, labels, constants) ==
  \/ FirstArgRejected(line)
  \/ /\ line.args # <<>>
     /\ IF Jumps(line) THEN parseJmpRejected(line.args[1], labels)
        ELSE parseArg2Rejected(Last(line.args), labels, constants)

(* The line makes findLabel look behind the last label.                    *)
SearchesLabel(line, labels) ==
  /\ ~ FirstArgRejected(line)
  /\ line.args # <<>>
  /\ Last(line.args).kind = "label" /\ ~ Defined(Last(line.args).name, labels)

Encode(line, labels, constants) ==
  LET arg1 == IF Len(line.args) = 2 THEN parseArg1(line.args[1]) ELSE 0
      arg2 == IF line.args = <<>> THEN 0
              ELSE IF Jumps(line) THEN parseJmp(line.args[1], labels)
              ELSE parseArg2(Last(line.args), labels, constants)
  IN  Combine(line.op, arg1, arg2)
=============================================================================
