---------------------------- MODULE VmAluProofs -----------------------------
(***************************************************************************)
(* The cases ADDB to SLLB, for every size of byte, of RAM and of register  *)
(* file, every set of programs and any float arithmetic: the division of C *)
(* on ints, that no case leaves an allocation or divides by zero behind    *)
(* its check, and how much of the machine an 8 bit case changes.           *)
(***************************************************************************)
EXTENDS VmAlu, VmProofs

-----------------------------------------------------------------------------
(* The ranges of int and of int8, and of numbers read as such.             *)
LEMMA Ranges ==
  /\ MinInt \in Int /\ MinInt <= -8 /\ Int32Range \subseteq Int /\ 0 \in Int32Range
  /\ WordSize \in {- 2 * MinInt, 1 - 2 * MinInt}
<1>1. WordSize \in Nat /\ WordSize >= 16
  BY WordIsWide
<1>. QED
  BY <1>1 DEF MinInt, Int32Range

LEMMA SignedWordType ==
  ASSUME NEW w \in Word
  PROVE  /\ SignedWord(w) \in Int /\ SignedWord(w) >= MinInt
         /\ w # 0 => SignedWord(w) # 0
BY WordIsWide DEF SignedWord, MinInt, Word

LEMMA SignedByteType ==
  ASSUME NEW b \in Byte
  PROVE  /\ SignedByte(b) \in Int /\ SignedByte(b) > MinInt
         /\ b # 0 => SignedByte(b) # 0
<1>1. WordSize >= 2 * ByteSize
  <2> DEFINE cube == ByteSize * (ByteSize * ByteSize)
  <2>1. ByteSize * ByteSize \in Nat /\ ByteSize * ByteSize >= 2
    BY ByteSizeType
  <2>2. cube \in Nat /\ cube >= 2
    BY <2>1, ByteSizeType
  <2>3. WordSize = ByteSize * cube
    BY DEF WordSize
  <2> HIDE DEF cube
  <2>4. ByteSize * cube >= ByteSize * 2
    BY <2>2, ByteSizeType
  <2>. QED  BY <2>3, <2>4, ByteSizeType
<1>. QED
  BY <1>1, WordSizeType, ByteSizeType DEF SignedByte, MinInt, Byte

LEMMA Int32Type ==
  ASSUME NEW t \in {"I", "B"}, NEW v \in Value(t)
  PROVE  /\ Int32(t, v) \in Int /\ Int32(t, v) >= MinInt
         /\ v # 0 => Int32(t, v) # 0
         /\ t = "B" => Int32(t, v) # MinInt
<1>1. CASE t = "B"
  BY <1>1, SignedByteType, Ranges DEF Int32, Value
<1>2. CASE t # "B"
  BY <1>2, SignedWordType DEF Int32, Value
<1>. QED
  BY <1>1, <1>2

-----------------------------------------------------------------------------
(* Division.                                                               *)
LEMMA Naturals2 ==
  ASSUME NEW m \in Nat, NEW n \in Nat, n > 0
  PROVE  /\ m \div n \in Nat /\ m % n \in 0 .. n - 1
         /\ m = n * (m \div n) + (m % n) /\ n * (m \div n) \in 0 .. m
<1>1. m \div n \in Nat /\ m % n \in 0 .. n - 1 /\ m = n * (m \div n) + (m % n)
  BY SMT
<1>2. \A q \in Nat : n * q \in Nat
  OBVIOUS
<1>. QED
  BY <1>1, <1>2

LEMMA MagnitudeType ==
  ASSUME NEW n \in Int
  PROVE  Magnitude(n) \in Nat /\ (n # 0 => Magnitude(n) > 0) /\ n \in {Magnitude(n), - Magnitude(n)}
BY DEF Magnitude

(* / and % of C on any integers: the quotient is cut towards zero, the     *)
(* remainder is smaller than the divisor and has the sign of the dividend. *)
THEOREM DivisionTruncates ==
  ASSUME NEW a \in Int, NEW b \in Int \ {0}
  PROVE  /\ Quotient(a, b) \in Int /\ Remainder(a, b) \in Int
         /\ a = b * Quotient(a, b) + Remainder(a, b)
         /\ Magnitude(Remainder(a, b)) < Magnitude(b)
         /\ Remainder(a, b) = 0 \/ (Remainder(a, b) > 0 <=> a > 0)
<1> DEFINE m == Magnitude(a)
           n == Magnitude(b)
           q == m \div n
           r == m % n
<1>1. m \in Nat /\ n \in Nat /\ n > 0
  BY MagnitudeType
<1>2. q \in Nat /\ r \in 0 .. n - 1 /\ m = n * q + r
  BY <1>1, Naturals2
<1>3. Quotient(a, b) = IF (a < 0) = (b < 0) THEN q ELSE - q
  BY DEF Quotient
<1>4. Remainder(a, b) = IF a < 0 THEN - r ELSE r
  <2>1. CASE a < 0 /\ b < 0
    BY <1>1, <1>2, <1>3, <2>1 DEF Magnitude, Remainder
  <2>2. CASE a < 0 /\ b > 0
    BY <1>1, <1>2, <1>3, <2>2 DEF Magnitude, Remainder
  <2>3. CASE a >= 0 /\ b < 0
    BY <1>1, <1>2, <1>3, <2>3 DEF Magnitude, Remainder
  <2>4. CASE a >= 0 /\ b > 0
    BY <1>1, <1>2, <1>3, <2>4 DEF Magnitude, Remainder
  <2>. QED  BY <2>1, <2>2, <2>3, <2>4
<1>5. Quotient(a, b) \in Int
  BY <1>2, <1>3
<1>6. a = b * Quotient(a, b) + Remainder(a, b)
  <2>1. b * Quotient(a, b) \in Int
    BY <1>5
  <2>. QED  BY <2>1 DEF Remainder
<1>7. Magnitude(Remainder(a, b)) = r
  BY <1>2, <1>4 DEF Magnitude
<1>8. a = 0 => r = 0
  <2>1. a = 0 => m = 0
    BY DEF Magnitude
  <2> HIDE DEF q, r, m, n
  <2>2. n * q \in Nat
    BY <1>1, <1>2
  <2>. QED  BY <1>2, <2>1, <2>2
<1> HIDE DEF q, r, m
<1>. QED
  BY <1>1, <1>2, <1>4, <1>5, <1>6, <1>7, <1>8

(* The quotient of two ints is an int, with one exception.                 *)
THEOREM OneQuotientOverflows ==
  ASSUME NEW a \in Int32Range, NEW b \in Int32Range \ {0}
  PROVE  Quotient(a, b) \in Int32Range <=> ~ (a = MinInt /\ b = -1)
<1> DEFINE m == Magnitude(a)
           n == Magnitude(b)
           q == m \div n
<1>1. a \in Int /\ b \in Int /\ b # 0 /\ MinInt \in Int /\ MinInt < 0
  BY Ranges
<1>2. m \in Nat /\ n \in Nat /\ n > 0
  BY <1>1, MagnitudeType
<1>3. q \in Nat /\ n * q <= m
  BY <1>2, Naturals2
<1>4. q <= m /\ (n > 1 /\ q > 0 => q < m)
  <2>1. \A i, k \in Nat : i > 0 => i * k \in Nat /\ i * k >= k /\ (i > 1 /\ k > 0 => i * k > k)
    OBVIOUS
  <2> HIDE DEF q, m, n
  <2>2. n * q \in Nat /\ n * q >= q /\ (n > 1 /\ q > 0 => n * q > q)
    BY <1>2, <1>3, <2>1
  <2>. QED  BY <1>2, <1>3, <2>2
<1>5. Quotient(a, b) = IF (a < 0) = (b < 0) THEN q ELSE - q
  BY DEF Quotient
<1>6. m <= - MinInt /\ (m = - MinInt => a = MinInt)
  BY <1>1 DEF Magnitude, Int32Range
<1>7. n = 1 <=> b \in {1, -1}
  BY <1>1 DEF Magnitude
<1>8. n = 1 => q = m
  BY <1>2
<1> HIDE DEF q, m, n
<1>9. CASE a = MinInt /\ b = -1
  <2>1. Quotient(a, b) = m
    BY <1>1, <1>5, <1>7, <1>8, <1>9
  <2>2. m = - MinInt
    BY <1>1, <1>9 DEF m, Magnitude
  <2>. QED  BY <1>1, <1>9, <2>1, <2>2 DEF Int32Range
<1>10. CASE ~ (a = MinInt /\ b = -1)
  <2>1. Quotient(a, b) # - MinInt
    <3> SUFFICES ASSUME Quotient(a, b) = - MinInt PROVE FALSE
      OBVIOUS
    <3>1. q = - MinInt /\ (a < 0) = (b < 0)
      BY <1>1, <1>3, <1>5
    <3>2. m = q /\ n = 1
      BY <1>1, <1>2, <1>3, <1>4, <1>6, <3>1
    <3>3. a = MinInt
      BY <1>6, <3>1, <3>2
    <3>4. b = -1
      BY <1>1, <1>7, <3>1, <3>2, <3>3
    <3>. QED  BY <1>10, <3>3, <3>4
  <2>2. Quotient(a, b) \in MinInt .. - MinInt
    BY <1>1, <1>2, <1>3, <1>4, <1>5, <1>6
  <2>3. Quotient(a, b) \in Int32Range
    BY <1>1, <2>1, <2>2 DEF Int32Range
  <2>. QED  BY <1>10, <2>3
<1>. QED
  BY <1>9, <1>10

(* The remainder of two ints is an int.                                    *)
LEMMA RemainderFits ==
  ASSUME NEW a \in Int32Range, NEW b \in Int32Range \ {0}
  PROVE  Remainder(a, b) \in Int32Range
<1>1. a \in Int /\ b \in Int \ {0} /\ MinInt \in Int /\ MinInt < 0
  BY Ranges
<1>2. Remainder(a, b) \in Int /\ Magnitude(Remainder(a, b)) < Magnitude(b)
  BY <1>1, DivisionTruncates
<1>3. Magnitude(b) <= - MinInt
  BY <1>1 DEF Magnitude, Int32Range
<1>. QED
  BY <1>1, <1>2, <1>3 DEF Magnitude, Int32Range

-----------------------------------------------------------------------------
(* One step of a dead case of flavour t.  OneByte is what                  *)
(* AluWritesAreNarrow asks of it.                                          *)
NoWild(t) == Arg1.kind # "wild" /\ Arg2(t).kind # "wild"

OneByte ==
  /\ \A r \in Reg \ {PC} : regs'[r] \div ByteSize = regs[r] \div ByteSize
  /\ \A c, d \in Cell : ram'[c] # ram[c] /\ ram'[d] # ram[d] => c = d

Good(t) ==
  /\ AluTypeOK' /\ code' = code
  /\ NoWild(t) /\ status' = "undefined" => MaskedOpcode' = MODI + 1
  /\ t = "B" => OneByte

Selected == TypeOK /\ status = "running" /\ pc < Len(code.instrs)

LEMMA OpcodeIsUnchanged ==
  ASSUME UNCHANGED <<code, pc>>
  PROVE  MaskedOpcode' = MaskedOpcode
BY DEF MaskedOpcode, instr

LEMMA FailIsGood ==
  ASSUME Selected, NEW t \in Flavours, NEW reason, Fail(reason),
         \/ reason \in {"divide_by_zero", "overflow"}
         \/ reason = "undefined" /\ MaskedOpcode = MODI + 1
  PROVE  Good(t)
<1>1. UNCHANGED <<code, regs, ram, pc, out>> /\ status' = reason
  BY DEF Fail
<1>2. AluTypeOK'
  BY <1>1 DEF Selected, TypeOK, AluTypeOK, Statuses
<1>3. status' = "undefined" => MaskedOpcode' = MODI + 1
  BY <1>1, OpcodeIsUnchanged
<1>4. OneByte
  BY <1>1 DEF OneByte
<1>. QED
  BY <1>1, <1>2, <1>3, <1>4 DEF Good

(* A result of the right width is written over the first operand.          *)
LEMMA ResultIsGood ==
  ASSUME Selected, NEW t \in Flavours, NEW v,
         NEW accesses \in {<<Arg1, Arg2(t), Arg1>>, <<Arg2(t), Arg1>>},
         Perform(t, accesses, Written(t, Arg1, v, Machine), pc + 1, <<>>),
         Accessible(t, {Arg1, Arg2(t)}) => v \in Value(t)
  PROVE  Good(t)
<1> DEFINE next == Written(t, Arg1, v, Machine)
           Done == \A k \in DOMAIN accesses : Access(t, accesses[k]) = "running"
<1>1. /\ Arg1 \in Location /\ Arg1.kind # "imm" /\ Arg2(t) \in Location
      /\ Machine \in MachineType /\ pc + 1 \in Nat
  BY OperandTypes, MachineIsTyped DEF Selected, TypeOK
<1>2. Done => Accessible(t, {Arg1, Arg2(t)})
  BY DEF Accessible
<1>3. Done => v \in Value(t) /\ Access(t, Arg1) = "running"
  BY <1>2 DEF Accessible
<1>4. Done => next \in MachineType
  BY <1>1, <1>3, WrittenType
<1>5. <<>> \in Seq(Printed)
  OBVIOUS
<1>6. TypeOK'
  <2> HIDE DEF next
  <2>. QED  BY <1>1, <1>4, <1>5, PerformType DEF Selected, next
<1>7. AluTypeOK' /\ code' = code
  BY <1>6, PerformCases DEF TypeOK, AluTypeOK
<1>8. NoWild(t) => status' # "undefined"
  <2>1. NoWild(t) => \A k \in DOMAIN accesses : accesses[k] \in Location /\ accesses[k].kind # "wild"
    BY <1>1 DEF NoWild
  <2>. QED  BY <2>1, PerformSafe DEF Selected
<1>9. t = "B" => OneByte
  <2> SUFFICES ASSUME t = "B" PROVE OneByte
    OBVIOUS
  <2>1. CASE Done
    <3>1. /\ \A r \in Reg : next.regs[r] \div ByteSize = Machine.regs[r] \div ByteSize
          /\ \A c \in Cell : next.ram[c] # Machine.ram[c] => c = Arg1.at
      BY <1>1, <1>3, <2>1, ByteWritten DEF Value
    <3>2. regs' = next.regs /\ ram' = next.ram
      BY <2>1, PerformCases
    <3>3. Machine.ram = ram /\ \A r \in Reg \ {PC} : Machine.regs[r] = regs[r]
      BY DEF Machine, cpu, Selected, TypeOK
    <3> HIDE DEF next
    <3>. QED  BY <3>1, <3>2, <3>3 DEF OneByte
  <2>2. CASE ~ Done
    <3>1. regs' = regs /\ ram' = ram
      BY <2>2, PerformCases
    <3>. QED  BY <3>1 DEF OneByte
  <2>. QED  BY <2>1, <2>2
<1>. QED
  BY <1>7, <1>8, <1>9 DEF Good

LEMMA OperateIsGood ==
  ASSUME Selected, NEW t \in Flavours, NEW v, Operate(t, v),
         Accessible(t, {Arg1, Arg2(t)}) => v \in Value(t)
  PROVE  Good(t)
BY ResultIsGood DEF Operate

(* Where C leaves the outcome undefined, the build traps or has a result.  *)
LEMMA ComputeIsGood ==
  ASSUME Selected, NEW t \in Flavours, NEW v, NEW overflows, Compute(t, overflows, v),
         Accessible(t, {Arg1, Arg2(t)}) => v \in Value(t)
  PROVE  Good(t)
<1>1. CASE Operate(t, v)
  BY <1>1, OperateIsGood
<1>2. CASE Fail("overflow")
  BY <1>2, FailIsGood
<1>. QED
  BY <1>1, <1>2 DEF Compute

LEMMA ReadOperands ==
  ASSUME Selected, NEW t \in Flavours, Accessible(t, {Arg1, Arg2(t)})
  PROVE  X(t) \in Value(t) /\ Y(t) \in Value(t)
<1>1. Arg1 \in Location /\ Arg2(t) \in Location
  BY OperandTypes DEF Selected
<1>2. Access(t, Arg1) = "running" /\ Access(t, Arg2(t)) = "running"
  BY DEF Accessible
<1>. QED
  BY <1>1, <1>2, LoadType DEF Selected, X, Y

LEMMA CutType ==
  ASSUME NEW t \in Flavours, NEW n \in Int
  PROVE  Truncate(t, n) \in Value(t)
BY RemainderType DEF Truncate, Value

LEMMA ValuesAreNumbers ==
  ASSUME NEW t \in Flavours
  PROVE  Value(t) \subseteq Int /\ (t # "B" => Value(t) = Word) /\ (t = "B" => Value(t) = Byte)
BY WordSizeType, ByteSizeType DEF Value, Word, Byte

-----------------------------------------------------------------------------
(* The cases.                                                              *)
LEMMA ArithmeticIsGood ==
  ASSUME Selected, NEW t \in Flavours, Sub(t) \/ Mul(t)
  PROVE  Good(t)
<1> DEFINE Ready == Accessible(t, {Arg1, Arg2(t)})
<1>1. Ready => X(t) \in Value(t) /\ Y(t) \in Value(t)
  BY ReadOperands
<1>2. CASE t = "F"
  <2>1. Ready => FloatSub(X(t), Y(t)) \in Value(t) /\ FloatMul(X(t), Y(t)) \in Value(t)
    BY <1>1, <1>2, FloatAluAssumption DEF Value
  <2>. QED  BY <1>2, <2>1, OperateIsGood DEF Sub, Mul
<1>3. CASE t # "F"
  <2> DEFINE x == Int32(t, X(t))
             y == Int32(t, Y(t))
  <2>1. Ready => x \in Int /\ y \in Int
    BY <1>1, <1>3, Int32Type DEF Flavours
  <2>2. Ready => x - y \in Int /\ x * y \in Int
    <3> HIDE DEF x, y, Ready
    <3>. QED  BY <2>1
  <2>3. Ready => Truncate(t, x - y) \in Value(t) /\ Truncate(t, x * y) \in Value(t)
    BY <2>2, CutType
  <2>4. \/ Compute(t, ~ FitsInt(x - y), Truncate(t, x - y))
        \/ Compute(t, ~ FitsInt(x * y), Truncate(t, x * y))
    BY <1>3 DEF Sub, Mul
  <2> HIDE DEF x, y
  <2>. QED  BY <2>3, <2>4, ComputeIsGood
<1>. QED
  BY <1>2, <1>3

LEMMA AddBIsGood ==
  ASSUME Selected, AddB
  PROVE  Good("B")
<1> DEFINE Ready == Accessible("B", {Arg1, Arg2("B")})
<1>0. "B" \in Flavours
  BY DEF Flavours
<1>1. Ready => X("B") \in Int /\ Y("B") \in Int
  BY <1>0, ReadOperands, ValuesAreNumbers
<1>2. Ready => X("B") + Y("B") \in Int
  BY <1>1
<1>3. Ready => Sum("B", X("B"), Y("B")) \in Value("B")
  BY <1>0, <1>2, CutType DEF Sum
<1>. QED
  BY <1>0, <1>3, OperateIsGood DEF AddB

LEMMA BitwiseIsGood ==
  ASSUME Selected, NEW t \in {"I", "B"}, BitOr(t) \/ BitAnd(t) \/ BitXor(t)
  PROVE  Good(t)
<1> DEFINE Ready == Accessible(t, {Arg1, Arg2(t)})
<1>0. t \in Flavours /\ Value(t) \in {Byte, Word}
  BY DEF Flavours, Value
<1>1. Ready => X(t) \in Value(t) /\ Y(t) \in Value(t)
  BY <1>0, ReadOperands
<1>2. Ready => {WordOr(X(t), Y(t)), WordAnd(X(t), Y(t)), WordXor(X(t), Y(t))} \subseteq Value(t)
  BY <1>0, <1>1, BitwiseAssumption
<1>. QED
  BY <1>0, <1>2, OperateIsGood DEF BitOr, BitAnd, BitXor

LEMMA CountType ==
  ASSUME NEW t \in {"I", "B"}, Y(t) \in Value(t)
  PROVE  2 ^ Count(t) \in Nat \ {0}
<1>1. Int32(t, Y(t)) \in Int
  BY Int32Type
<1>2. \A n \in Int : n % WordBits \in 0 .. WordBits - 1
  BY WordBitsAssumption
<1>3. Count(t) \in 0 .. WordBits - 1
  BY <1>1, <1>2 DEF Count
<1>. QED
  BY <1>3, WordBitsAssumption

LEMMA ShiftsAreGood ==
  ASSUME Selected, NEW t \in {"I", "B"}, Complement(t) \/ ShiftRight(t) \/ ShiftLeft(t)
  PROVE  Good(t)
<1> DEFINE Ready == Accessible(t, {Arg1, Arg2(t)})
<1>0. t \in Flavours
  BY DEF Flavours
<1>1. Ready => X(t) \in Value(t) /\ Y(t) \in Value(t)
  BY <1>0, ReadOperands
<1>2. Ready => X(t) \in Int /\ Y(t) \in Int /\ Int32(t, X(t)) \in Int /\ 2 ^ Count(t) \in Nat \ {0}
  BY <1>0, <1>1, ValuesAreNumbers, Int32Type, CountType
<1>3. CASE Complement(t)
  <2>1. Ready => - Y(t) - 1 \in Int
    BY <1>2
  <2>2. Ready => Truncate(t, - Y(t) - 1) \in Value(t)
    BY <1>0, <2>1, CutType
  <2>. QED  BY <1>0, <1>3, <2>2, ResultIsGood DEF Complement
<1>4. CASE ShiftRight(t)
  <2>1. \A n \in Int : \A p \in Nat \ {0} : n \div p \in Int
    OBVIOUS
  <2>2. Ready => Int32(t, X(t)) \div (2 ^ Count(t)) \in Int
    BY <1>2, <2>1
  <2>3. Ready => Truncate(t, Int32(t, X(t)) \div (2 ^ Count(t))) \in Value(t)
    BY <1>0, <2>2, CutType
  <2>4. Compute(t, ~ CountFits(t), Truncate(t, Int32(t, X(t)) \div (2 ^ Count(t))))
    BY <1>4 DEF ShiftRight
  <2>. QED  BY <1>0, <2>3, <2>4, ComputeIsGood
<1>5. CASE ShiftLeft(t)
  <2>1. \A n \in Int : \A p \in Nat \ {0} : n * p \in Int
    OBVIOUS
  <2> DEFINE exact == Int32(t, X(t)) * (2 ^ Count(t))
             overflows == ~ CountFits(t) \/ Int32(t, X(t)) < 0 \/ ~ FitsInt(exact)
  <2>2. Ready => exact \in Int
    BY <1>2, <2>1
  <2>3. Ready => Truncate(t, exact) \in Value(t)
    BY <1>0, <2>2, CutType
  <2>4. Compute(t, overflows, Truncate(t, exact))
    BY <1>5 DEF ShiftLeft
  <2> HIDE DEF exact, overflows
  <2>. QED  BY <1>0, <2>3, <2>4, ComputeIsGood
<1>. QED
  BY <1>3, <1>4, <1>5

LEMMA IntDivisionIsGood ==
  ASSUME Selected, NEW t \in Flavours, NEW a, NEW b, NEW v, IntDivision(t, a, b, v),
         Accessible(t, {Arg1, Arg2(t)}) /\ b = 0 => MaskedOpcode = MODI + 1,
         Accessible(t, {Arg1, Arg2(t)}) /\ b # 0 => v \in Value(t)
  PROVE  Good(t)
<1>1. CASE Accessible(t, {Arg1, Arg2(t)}) /\ b = 0
  BY <1>1, FailIsGood DEF IntDivision, Undefined
<1>2. CASE ~ (Accessible(t, {Arg1, Arg2(t)}) /\ b = 0)
  <2>1. CASE Fail("overflow")
    BY <2>1, FailIsGood
  <2>2. CASE ~ Fail("overflow")
    BY <1>2, <2>2, ResultIsGood DEF IntDivision, Undefined
  <2>. QED  BY <2>1, <2>2
<1>. QED
  BY <1>1, <1>2

(* After CHECK_DIV_ZERO_* the divisor is not zero.                         *)
LEMMA DivisorsAreInts ==
  ASSUME Selected, NEW t \in {"I", "B"}, Accessible(t, {Arg1, Arg2(t)}),
         ~ (Accessible(t, {Arg2(t)}) /\ IsZero(t, Y(t)))
  PROVE  Int32(t, X(t)) \in Int /\ Int32(t, Y(t)) \in Int \ {0}
<1>1. t \in Flavours /\ X(t) \in Value(t) /\ Y(t) \in Value(t)
  BY ReadOperands DEF Flavours
<1>2. Y(t) # 0
  BY DEF Accessible, IsZero
<1>. QED
  BY <1>1, <1>2, Int32Type

LEMMA IntDivIsGood ==
  ASSUME Selected, NEW t \in {"I", "B"}, Div(t) \/ Mod(t)
  PROVE  Good(t)
<1> DEFINE x == Int32(t, X(t))
           y == Int32(t, Y(t))
           Ready == Accessible(t, {Arg1, Arg2(t)})
           Checked == ~ (Accessible(t, {Arg2(t)}) /\ IsZero(t, Y(t)))
<1>0. t \in Flavours /\ t # "F"
  BY DEF Flavours
<1>1. CASE ~ Checked
  <2>1. Fail("divide_by_zero")
    BY <1>0, <1>1 DEF Div, Mod, CheckDivZero
  <2>. QED  BY <1>0, <2>1, FailIsGood
<1>2. CASE Checked
  <2>1. Ready => x \in Int /\ y \in Int \ {0}
    BY <1>2, DivisorsAreInts
  <2>4. Ready => Quotient(x, y) \in Int /\ Remainder(x, y) \in Int
    <3> HIDE DEF x, y, Ready
    <3>. QED  BY <2>1, DivisionTruncates
  <2>5. Ready => Truncate(t, Quotient(x, y)) \in Value(t) /\ Truncate(t, Remainder(x, y)) \in Value(t)
    BY <1>0, <2>4, CutType
  <2>6. IntDivision(t, x, y, Truncate(t, Quotient(x, y))) \/ IntDivision(t, x, y, Truncate(t, Remainder(x, y)))
    BY <1>0, <1>2 DEF Div, Mod, CheckDivZero
  <2> HIDE DEF x, y, Ready
  <2>. QED  BY <1>0, <2>1, <2>5, <2>6, IntDivisionIsGood DEF Ready
<1>. QED
  BY <1>1, <1>2

LEMMA FloatDivIsGood ==
  ASSUME Selected, Div("F") \/ Mod("F")
  PROVE  Good("F")
<1> DEFINE x == FloatToInt(X("F"))
           y == FloatToInt(Y("F"))
           Ready == Accessible("F", {Arg1, Arg2("F")})
           Checked == ~ (Accessible("F", {Arg2("F")}) /\ IsZero("F", Y("F")))
<1>0. "F" \in Flavours /\ Value("F") = Word
  BY DEF Flavours, Value
<1>1. Ready => X("F") \in Word /\ Y("F") \in Word
  BY <1>0, ReadOperands
<1>2. CASE ~ Checked
  <2>1. Fail("divide_by_zero")
    BY <1>2 DEF Div, Mod, CheckDivZero
  <2>. QED  BY <1>0, <2>1, FailIsGood
<1>3. CASE Checked /\ Div("F")
  <2>1. Perform("F", <<Arg2("F"), Arg1>>, Written("F", Arg1, FloatDiv(X("F"), Y("F")), Machine), pc + 1, <<>>)
    BY <1>3 DEF Div, CheckDivZero
  <2>2. Ready => ~ FloatIsZero(Y("F"))
    BY <1>3 DEF Accessible, IsZero
  <2>3. Ready => FloatDiv(X("F"), Y("F")) \in Value("F")
    BY <1>0, <1>1, <2>2, FloatAluAssumption
  <2>. QED  BY <1>0, <2>1, <2>3, ResultIsGood
<1>4. CASE Checked /\ Mod("F")
  <2>1. IntDivision("F", x, y, FloatOfInt(Remainder(x, y))) /\ MaskedOpcode = MODI + Flavour["F"]
    BY <1>4 DEF Mod, CheckDivZero, AluExecutes
  <2>2. MaskedOpcode = MODI + 1
    BY <2>1 DEF Flavour
  <2>3. Ready => x \in Int32Range /\ y \in Int32Range
    BY <1>1, FloatAluAssumption
  <2>4. Ready /\ y # 0 => FloatOfInt(Remainder(x, y)) \in Value("F")
    <3> HIDE DEF x, y, Ready
    <3>1. Ready /\ y # 0 => Remainder(x, y) \in Int32Range
      BY <2>3, RemainderFits
    <3>. QED  BY <1>0, <3>1, FloatAluAssumption
  <2> HIDE DEF x, y
  <2>. QED  BY <1>0, <2>1, <2>2, <2>4, IntDivisionIsGood
<1>. QED
  BY <1>2, <1>3, <1>4

-----------------------------------------------------------------------------
(* Steps.                                                                  *)
LEMMA AluCases ==
  ASSUME TypeOK, AluStep
  PROVE  \E t \in Flavours :
           /\ Good(t) /\ Selected
           /\ t = "F" => MaskedOpcode \in {SUBI + 1, MULI + 1, DIVI + 1, MODI + 1}
           /\ MaskedOpcode \in ByteAlu => t = "B"
<1>1. CASE AddB
  <2>1. Selected /\ "B" \in Flavours
    BY <1>1 DEF AddB, AluExecutes, Selected, Flavours
  <2>. QED  BY <1>1, <2>1, AddBIsGood
<1>2. ASSUME NEW t \in Flavours, Sub(t) \/ Mul(t) \/ Div(t) \/ Mod(t)
      PROVE  /\ Good(t) /\ Selected
             /\ t = "F" => MaskedOpcode \in {SUBI + 1, MULI + 1, DIVI + 1, MODI + 1}
             /\ MaskedOpcode \in ByteAlu => t = "B"
  <2>1. /\ Selected
        /\ MaskedOpcode \in {SUBI + Flavour[t], MULI + Flavour[t], DIVI + Flavour[t], MODI + Flavour[t]}
    BY <1>2 DEF Sub, Mul, Div, Mod, AluExecutes, Selected
  <2>2. Good(t)
    BY <1>2, <2>1, ArithmeticIsGood, IntDivIsGood, FloatDivIsGood DEF Flavours
  <2>3. Flavour[t] = IF t = "I" THEN 0 ELSE IF t = "F" THEN 1 ELSE 2
    BY FlavourType
  <2>. QED
    BY <2>1, <2>2, <2>3 DEF Flavours, ByteAlu, SUBI, MULI, DIVI, MODI, ADDI, ORB, ANDB, NOTB, XORB, SZRLB, SRLB, SLLB
<1>3. ASSUME NEW t \in {"I", "B"},
             \/ BitOr(t) \/ BitAnd(t) \/ BitXor(t)
             \/ Complement(t) \/ ShiftRight(t) \/ ShiftLeft(t)
      PROVE  t \in Flavours /\ Good(t) /\ Selected /\ (MaskedOpcode \in ByteAlu => t = "B")
  <2>1. /\ Selected
        /\ MaskedOpcode \in {ORI + BitFlavour[t], ANDI + BitFlavour[t], XORI + BitFlavour[t], NOTI + BitFlavour[t],
                             SZRLI + BitFlavour[t], SRLI + BitFlavour[t], SLLI + BitFlavour[t]}
    BY <1>3 DEF BitOr, BitAnd, BitXor, Complement, ShiftRight, ShiftLeft, AluExecutes, Selected
  <2>2. Good(t)
    BY <1>3, <2>1, BitwiseIsGood, ShiftsAreGood
  <2>3. BitFlavour[t] = IF t = "I" THEN 0 ELSE 1
    BY DEF BitFlavour
  <2>. QED
    BY <2>1, <2>2, <2>3 DEF Flavours, ByteAlu, SUBI, MULI, DIVI, MODI, ADDI, ORB, ANDB, NOTB, XORB, SZRLB, SRLB, SLLB,
       ORI, ANDI, NOTI, XORI, SZRLI, SRLI, SLLI
<1>. QED
  BY <1>1, <1>2, <1>3 DEF AluStep

LEMMA AluOperandsAreNotWild ==
  ASSUME Selected, SelectsAlu, AluOperands, NEW t \in Flavours,
         t = "F" => MaskedOpcode \in {SUBI + 1, MULI + 1, DIVI + 1, MODI + 1}
  PROVE  NoWild(t)
<1>1. instr \in Instruction
  BY InstrType DEF Selected
<1>2. OPCODE(instr) < 0
  <2>1. OPCODE(instr) \in -32 .. 31 /\ OPCODE(instr) % 64 \in 32 .. 58
    BY <1>1, OpcodeRange DEF SelectsAlu, MaskedOpcode, ADDI, SLLB
  <2>. QED  BY <2>1
<1>3. AluOperandsExist(instr)
  BY DEF AluOperands, Selected, TypeOK, Program, instr
<1>4. Arg1.kind # "wild"
  BY <1>2, <1>3 DEF AluOperandsExist, Arg1, Indirect, InRam, InReg
<1>5. CASE IS_ARG2_REG(instr)
  <2>1. ARG2_VALUE(instr) \in Reg
    BY <1>2, <1>3, <1>5 DEF AluOperandsExist
  <2>. QED  BY <1>4, <1>5, <2>1 DEF NoWild, Arg2, Indirect, InRam, InReg
<1>6. CASE ~ IS_ARG2_REG(instr) /\ IS_ARG2_IMM(instr)
  <2>1. t # "F"
    BY <1>2, <1>3, <1>6 DEF AluOperandsExist, MaskedOpcode
  <2>. QED  BY <1>4, <1>6, <2>1 DEF NoWild, Arg2, Literal
<1>7. CASE ~ IS_ARG2_REG(instr) /\ ~ IS_ARG2_IMM(instr)
  <2>1. ARG2_VALUE(instr) + 1 \in DOMAIN code.constants
    BY <1>2, <1>3, <1>7 DEF AluOperandsExist
  <2>. QED  BY <1>4, <1>7, <2>1 DEF NoWild, Arg2, InPool, InRam
<1>. QED
  BY <1>5, <1>6, <1>7

LEMMA RunningIsTyped ==
  /\ TypeOK => AluTypeOK
  /\ AluTypeOK /\ status \in Statuses => TypeOK
BY DEF TypeOK, AluTypeOK

LEMMA AluStepCases ==
  ASSUME AluTypeOK, [AluNext]_vars
  PROVE  \/ TypeOK /\ SelectsAlu /\ AluStep
         \/ TypeOK /\ ~ SelectsAlu /\ Step
         \/ UNCHANGED vars
<1>1. Step => status = "running"
  BY DEF Step, Noop, Jmp, Call, Ret, If, Ife, Mov, Ldc, Ldca, Push, Pop, Dup, PrintNumber, PrintC,
         Add, AddTraps, UnknownOpcode, Halt, Executes
<1>2. AluStep => status = "running"
  BY DEF AluStep, AddB, Sub, Mul, Div, Mod, BitOr, BitAnd, BitXor, Complement, ShiftRight,
         ShiftLeft, AluExecutes
<1>3. status = "running" => TypeOK
  BY RunningIsTyped DEF Statuses
<1>. QED
  BY <1>1, <1>2, <1>3 DEF AluNext, Ended

LEMMA AluNextType ==
  ASSUME AluTypeOK, [AluNext]_vars
  PROVE  AluTypeOK' /\ code' = code
<1>1. CASE TypeOK /\ SelectsAlu /\ AluStep
  BY <1>1, AluCases DEF Good
<1>2. CASE TypeOK /\ ~ SelectsAlu /\ Step
  <2>1. TypeOK' /\ code' = code
    BY <1>2, NextType, CodeIsConstant DEF Next
  <2>. QED  BY <2>1 DEF TypeOK, AluTypeOK
<1>3. CASE UNCHANGED vars
  BY <1>3 DEF AluTypeOK, vars
<1>. QED
  BY <1>1, <1>2, <1>3, AluStepCases

(* The repaired machine keeps its types, through every dead case.          *)
THEOREM AluTypeCorrect == AluSpec => []AluTypeOK
<1>1. Init => AluTypeOK
  BY InitType, RunningIsTyped
<1>. QED
  BY <1>1, AluNextType, PTL DEF AluSpec

(* In a program whose operands exist, and whatever its numbers are, none   *)
(* of the dead cases leaves an allocation or divides by a zero its check   *)
(* has not seen, but for the integer remainder of MODF.                    *)
THEOREM AluSafe == AluSpec => []AluSafety
<1>1. Init => AluSafety
  BY DEF Init, AluSafety
<1>2. AluTypeOK /\ AluSafety /\ [AluNext]_vars => AluSafety'
  <2> SUFFICES ASSUME AluTypeOK, AluSafety, [AluNext]_vars, AluOperands', status' = "undefined"
               PROVE  MaskedOpcode' = MODI + 1
    BY DEF AluSafety
  <2>1. AluOperands
    BY AluNextType DEF AluOperands, WellFormed, WellFormedInstr, AluOperandsExist
  <2>2. CASE TypeOK /\ SelectsAlu /\ AluStep
    BY <2>1, <2>2, AluCases, AluOperandsAreNotWild DEF Good
  <2>3. CASE TypeOK /\ ~ SelectsAlu /\ Step
    <3>1. status # "undefined"
      BY <2>3 DEF Step, Noop, Jmp, Call, Ret, If, Ife, Mov, Ldc, Ldca, Push, Pop, Dup, PrintNumber, PrintC,
         Add, AddTraps, UnknownOpcode, Halt, Executes
    <3>. QED  BY <2>1, <2>3, <3>1, StepSafe DEF Next, AluOperands
  <2>4. CASE UNCHANGED vars
    BY <2>1, <2>4, OpcodeIsUnchanged DEF vars, AluSafety
  <2>. QED
    BY <2>2, <2>3, <2>4, AluStepCases
<1>. QED
  BY <1>1, <1>2, AluTypeCorrect, PTL DEF AluSpec

(* For every program: an 8 bit operation changes one byte of the machine.  *)
THEOREM AluWritesStayNarrow == AluSpec => AluWritesAreNarrow
<1> DEFINE Kept == status = "running" /\ pc < Len(code.instrs) /\ MaskedOpcode \in ByteAlu => OneByte
<1>1. AluTypeOK /\ [AluNext]_vars => [Kept]_vars
  <2> SUFFICES ASSUME AluTypeOK, [AluNext]_vars, pc < Len(code.instrs), MaskedOpcode \in ByteAlu
               PROVE  OneByte
    OBVIOUS
  <2>1. SelectsAlu
    BY DEF SelectsAlu, ByteAlu, ADDI, SUBI, MULI, DIVI, MODI, ORB, ANDB, NOTB, XORB, SZRLB, SRLB, SLLB
  <2>2. CASE TypeOK /\ AluStep
    BY <2>2, AluCases DEF Good
  <2>3. CASE UNCHANGED vars
    BY <2>3 DEF vars, OneByte
  <2>. QED
    BY <2>1, <2>2, <2>3, AluStepCases
<1>. QED
  BY <1>1, AluTypeCorrect, PTL DEF AluSpec, AluWritesAreNarrow, OneByte
=============================================================================
