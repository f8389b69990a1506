-------------------------------- MODULE VmAlu --------------------------------
(***************************************************************************)
(* The cases ADDB to SLLB of vmExecute.  No instruction word selects them, *)
(* as OPCODE keeps the sign of the word (theorem OpcodeRange): this is Vm  *)
(* with OPCODE_MASK applied, the mask bytecode.h defines for it and never  *)
(* uses, so that the cases can be checked before they become reachable.    *)
(***************************************************************************)
EXTENDS Vm

CONSTANTS
  WordBits,                                      \* 32 in the program
  WordOr(_, _), WordAnd(_, _), WordXor(_, _),    \* |, & and ^ of words
  FloatSub(_, _), FloatMul(_, _), FloatDiv(_, _),
  FloatIsZero(_),
  FloatToInt(_), FloatOfInt(_)

Magnitude(n) == IF n < 0 THEN - n ELSE n
MinInt == - (WordSize \div 2)
Int32Range == MinInt .. - MinInt - 1

(* FloatToInt is the processor's conversion: C leaves that of a float      *)
(* which no int holds undefined.                                           *)
(* That a power is positive is spelled out for the provers, which know no  *)
(* more of 2 ^ n.                                                          *)
ASSUME WordBitsAssumption ==
  /\ WordBits \in Nat \ {0} /\ 2 ^ WordBits = WordSize
  /\ \A n \in 0 .. WordBits - 1 : 2 ^ n \in Nat \ {0}

(* No bit of the result stands above the bits of the operands.             *)
ASSUME BitwiseAssumption ==
  \A width \in {Byte, Word} : \A x, y \in width :
    {WordOr(x, y), WordAnd(x, y), WordXor(x, y)} \subseteq width

ASSUME FloatAluAssumption ==
  /\ \A x, y \in Word : /\ FloatSub(x, y) \in Word /\ FloatMul(x, y) \in Word
                        /\ ~ FloatIsZero(y) => FloatDiv(x, y) \in Word
  /\ \A x \in Word : FloatToInt(x) \in Int32Range
  /\ \A n \in Int32Range : FloatOfInt(n) \in Word

MaskedOpcode == OPCODE(instr) % 64

AluExecutes(op) == status = "running" /\ pc < Len(code.instrs) /\ MaskedOpcode = op

(* The bitwise opcodes have no float flavour.                              *)
BitFlavour == [I |-> 0, B |-> 1]

Int32(t, v) == IF t = "B" THEN SignedByte(v) ELSE SignedWord(v)

X(t) == Load(t, Arg1)
Y(t) == Load(t, Arg2(t))

Fail(reason) == status' = reason /\ UNCHANGED <<code, regs, ram, pc, out>>

Accessible(t, locations) == \A loc \in locations : Access(t, loc) = "running"

(* OP_INT, OP_INT8 and OP_FLOAT: the result goes where the first operand   *)
(* came from.  A byte operation is done on int and cut to the byte.        *)
Operate(t, result) ==
  Perform(t, <<Arg1, Arg2(t), Arg1>>, Written(t, Arg1, result, Machine), pc + 1, <<>>)

(* The same for an operation on int that C leaves undefined for some of    *)
(* its operands: if the build does not trap, result is what it makes.      *)
Undefined(t, overflows) == Accessible(t, {Arg1, Arg2(t)}) /\ overflows

Compute(t, overflows, result) ==
  \/ (Undefined(t, overflows) => "wraps" \in OnOverflow) /\ Operate(t, result)
  \/ Undefined(t, overflows) /\ "traps" \in OnOverflow /\ Fail("overflow")

-----------------------------------------------------------------------------
AddB == AluExecutes(ADDI + 2) /\ Operate("B", Sum("B", X("B"), Y("B")))

(* Mutant: the operands swapped.                                           *)
SubSwapped(t) ==
  /\ AluExecutes(SUBI + Flavour[t])
  /\ Operate(t, IF t = "F" THEN FloatSub(Y(t), X(t)) ELSE Truncate(t, Y(t) - X(t)))

Sub(t) ==
  LET exact == Int32(t, X(t)) - Int32(t, Y(t))
  IN  /\ AluExecutes(SUBI + Flavour[t])
      /\ IF t = "F" THEN Operate(t, FloatSub(X(t), Y(t)))
         ELSE Compute(t, ~ FitsInt(exact), Truncate(t, exact))

Mul(t) ==
  LET exact == Int32(t, X(t)) * Int32(t, Y(t))
  IN  /\ AluExecutes(MULI + Flavour[t])
      /\ IF t = "F" THEN Operate(t, FloatMul(X(t), Y(t)))
         ELSE Compute(t, ~ FitsInt(exact), Truncate(t, exact))

-----------------------------------------------------------------------------
(* CHECK_DIV_ZERO_* and the divisions.  Those of C truncate towards 0; for *)
(* the quotient INT_MIN / -1, which no int can hold, and the remainder     *)
(* with it the processor traps, whatever the build does elsewhere.         *)
Quotient(a, b) ==
  IF (a < 0) = (b < 0) THEN Magnitude(a) \div Magnitude(b) ELSE - (Magnitude(a) \div Magnitude(b))
Remainder(a, b) == a - b * Quotient(a, b)

IsZero(t, v) == IF t = "F" THEN FloatIsZero(v) ELSE v = 0

WithoutZeroCheck(t, Divide) == Divide       \* mutant
CheckDivZero(t, Divide) ==
  IF Accessible(t, {Arg2(t)}) /\ IsZero(t, Y(t)) THEN Fail("divide_by_zero") ELSE Divide

(* result is a / b or a % b, on int, of operands that are read before it.  *)
IntDivision(t, a, b, result) ==
  IF Undefined(t, b = 0) THEN Fail("undefined")
  ELSE IF Undefined(t, a = MinInt /\ b = -1) THEN Fail("overflow")
  ELSE Perform(t, <<Arg2(t), Arg1>>, Written(t, Arg1, result, Machine), pc + 1, <<>>)

Div(t) ==
  LET x == Int32(t, X(t))
      y == Int32(t, Y(t))
  IN  /\ AluExecutes(DIVI + Flavour[t])
      /\ CheckDivZero(t, IF t = "F" THEN Perform(t, <<Arg2(t), Arg1>>,
                              Written(t, Arg1, FloatDiv(X(t), Y(t)), Machine), pc + 1, <<>>)
                         ELSE IntDivision(t, x, y, Truncate(t, Quotient(x, y))))

(* MODF takes the remainder of the integer parts.                          *)
Mod(t) ==
  LET x == IF t = "F" THEN FloatToInt(X(t)) ELSE Int32(t, X(t))
      y == IF t = "F" THEN FloatToInt(Y(t)) ELSE Int32(t, Y(t))
  IN  /\ AluExecutes(MODI + Flavour[t])
      /\ CheckDivZero(t, IntDivision(t, x, y, IF t = "F" THEN FloatOfInt(Remainder(x, y))
                                              ELSE Truncate(t, Remainder(x, y))))

-----------------------------------------------------------------------------
BitOr(t)  == AluExecutes(ORI + BitFlavour[t])  /\ Operate(t, WordOr(X(t), Y(t)))
BitAnd(t) == AluExecutes(ANDI + BitFlavour[t]) /\ Operate(t, WordAnd(X(t), Y(t)))
BitXor(t) == AluExecutes(XORI + BitFlavour[t]) /\ Operate(t, WordXor(X(t), Y(t)))

Complement(t) ==
  /\ AluExecutes(NOTI + BitFlavour[t])
  /\ Perform(t, <<Arg2(t), Arg1>>,
             Written(t, Arg1, Truncate(t, - Y(t) - 1), Machine), pc + 1, <<>>)

(* Shifts of an int.  C leaves the outcome undefined if the count is not   *)
(* below the size of the word; the processor takes it modulo that size.    *)
Count(t) == Int32(t, Y(t)) % WordBits
CountFits(t) == Int32(t, Y(t)) \in 0 .. WordBits - 1

(* SZRL is the same >> of a signed number as SRL.                          *)
ShiftRight(t) ==
  /\ AluExecutes(SZRLI + BitFlavour[t]) \/ AluExecutes(SRLI + BitFlavour[t])
  /\ Compute(t, ~ CountFits(t), Truncate(t, Int32(t, X(t)) \div (2 ^ Count(t))))

(* Mutant: the bits are kept that a byte has no room for.                  *)
ShiftLeftUncut(t) ==
  /\ AluExecutes(SLLI + BitFlavour[t])
  /\ Operate(t, X(t) * (2 ^ Count(t)))

(* Nor may a negative number, or a bit into the sign, be shifted left.     *)
ShiftLeft(t) ==
  LET x     == Int32(t, X(t))
      exact == x * (2 ^ Count(t))
  IN  /\ AluExecutes(SLLI + BitFlavour[t])
      /\ Compute(t, ~ CountFits(t) \/ x < 0 \/ ~ FitsInt(exact), Truncate(t, exact))

-----------------------------------------------------------------------------
AluStep ==
  \/ AddB
  \/ \E t \in Flavours : Sub(t) \/ Mul(t) \/ Div(t) \/ Mod(t)
  \/ \E t \in {"I", "B"} : BitOr(t) \/ BitAnd(t) \/ BitXor(t) \/ Complement(t)
                              \/ ShiftRight(t) \/ ShiftLeft(t)

SelectsAlu == pc < Len(code.instrs) /\ MaskedOpcode \in ADDI + 2 .. SLLB

AluNext == \/ SelectsAlu /\ AluStep
           \/ ~ SelectsAlu /\ Step
           \/ Ended

AluSpec == Init /\ [][AluNext]_vars

-----------------------------------------------------------------------------
(* Type invariant: divide_by_zero is another end of the process.           *)
AluTypeOK ==
  /\ code \in Program
  /\ regs \in [Reg -> Word]
  /\ ram \in [Cell -> Byte]
  /\ pc \in Nat
  /\ status \in Statuses \cup {"divide_by_zero"}
  /\ out \in Seq(Printed)

(* With well formed operands no case leaves an allocation, and none        *)
(* divides an int by zero behind its check, at any flavour, with operands  *)
(* in registers, in RAM or in the word.  MODF, whose check looks at        *)
(* another number than its division, is set apart.                         *)
AluOperandsExist(i) ==
  OPCODE(i) < 0 =>
    /\ ARG1_VALUE(i) \in Reg
    /\ \/ IS_ARG2_REG(i) /\ ARG2_VALUE(i) \in Reg
       \/ ~ IS_ARG2_REG(i) /\ ~ IS_ARG2_IMM(i) /\ ARG2_VALUE(i) + 1 \in DOMAIN code.constants
       \/ ~ IS_ARG2_REG(i) /\ IS_ARG2_IMM(i)
          /\ OPCODE(i) % 64 \notin {SUBI + 1, MULI + 1, DIVI + 1, MODI + 1}

AluOperands == WellFormed(code) /\ \A k \in DOMAIN code.instrs : AluOperandsExist(code.instrs[k])

AluSafety == AluOperands /\ status = "undefined" => MaskedOpcode = MODI + 1

(* An 8 bit operation changes one byte of the machine: the neighbours of   *)
(* the byte in RAM and the rest of the register's union keep their value.  *)
ByteAlu == {ADDI + 2, SUBI + 2, MULI + 2, DIVI + 2, MODI + 2, ORB, ANDB, NOTB, XORB, SZRLB, SRLB, SLLB}
AluWritesAreNarrow ==
  [][status = "running" /\ pc < Len(code.instrs) /\ MaskedOpcode \in ByteAlu =>
       /\ \A r \in Reg \ {PC} : regs'[r] \div ByteSize = regs[r] \div ByteSize
       /\ \A c, d \in Cell : ram'[c] # ram[c] /\ ram'[d] # ram[d] => c = d]_vars
=============================================================================
