------------------------------ MODULE MCVmAlu -------------------------------
(* VmAlu on programs that compute both sides of an identity of arithmetic, *)
(* and on single instructions with every form of operand.                  *)
EXTENDS VmAlu, VmPrograms, Bitwise

CONSTANT Operands       \* the words the programs calculate with

A == 4
B == 5
C == 6
D == 7

MCWordOr(x, y)  == x | y
MCWordAnd(x, y) == x & y
MCWordXor(x, y) == x ^^ y

Floats == INSTANCE MiniFloat WITH WordSize <- WordSize
MCFloatGt(x, y)  == Floats!Gt(x, y)
MCFloatGe(x, y)  == Floats!Ge(x, y)
MCFloatAdd(x, y) == Floats!Add(x, y)
MCFloatSub(x, y) == Floats!Sub(x, y)
MCFloatMul(x, y) == Floats!Mul(x, y)
MCFloatDiv(x, y) == Floats!Div(x, y)
MCFloatIsZero(x) == Floats!IsZero(x)
MCFloatToInt(x)  == Floats!ToInt(x)
MCFloatOfInt(n)  == Floats!OfInt(n)

(* One line, of flavour t: a three-flavoured or a bitwise operation.       *)
Num(op, t, r, arg) == Line(op + Flavour[t], <<RegArg(r), arg>>)
Bit(op, t, r, arg) == Line(op + BitFlavour[t], <<RegArg(r), arg>>)
Set(t, r, s) == Num(MOVI, t, r, RegArg(s))
One == ImmArg(<<1>>)

(* $a and $b hold the operands, $c and $d become the two sides.            *)
Load2 == <<Num(LDCI, "I", A, ConstArg(0)), Num(LDCI, "I", B, ConstArg(1)),
           Num(MOVI, "I", C, RegArg(A)), Num(MOVI, "I", D, RegArg(A))>>

BothSides(t) ==
  { \* ~ (a & b) = ~ a | ~ b
    <<Bit(ANDI, t, C, RegArg(B)), Bit(NOTI, t, C, RegArg(C)),
      Bit(NOTI, t, D, RegArg(A)), Bit(NOTI, t, B, RegArg(B)), Bit(ORI, t, D, RegArg(B))>>,
    \* (a ^ b) + ((a & b) << 1) = a + b
    <<Bit(XORI, t, C, RegArg(B)), Bit(ANDI, t, D, RegArg(B)), Bit(SLLI, t, D, One),
      Num(ADDI, t, C, RegArg(D)), Set(t, D, A), Num(ADDI, t, D, RegArg(B))>>,
    \* a - b = a + ~ b + 1
    <<Num(SUBI, t, C, RegArg(B)), Bit(NOTI, t, B, RegArg(B)),
      Num(ADDI, t, D, RegArg(B)), Num(ADDI, t, D, One)>>,
    \* a * b + a = a * (b + 1)
    <<Num(MULI, t, C, RegArg(B)), Num(ADDI, t, C, RegArg(A)),
      Num(ADDI, t, B, One), Num(MULI, t, D, RegArg(B))>>,
    \* a / b * b + a % b = a
    <<Num(DIVI, t, C, RegArg(B)), Num(MULI, t, C, RegArg(B)),
      Num(MODI, t, D, RegArg(B)), Num(ADDI, t, C, RegArg(D)), Set(t, D, A)>>,
    \* ((a >> 1) << 1) + (a & 1) = a
    <<Bit(SRLI, t, C, One), Bit(SLLI, t, C, One), Bit(ANDI, t, D, One),
      Num(ADDI, t, C, RegArg(D)), Set(t, D, A)>>}

(* 0 - (a - b) = b - a and a * b = b * a                                   *)
FloatSides ==
  {<<Num(SUBI, "F", C, RegArg(B)), Num(SUBI, "F", A, RegArg(A)), Num(SUBI, "F", A, RegArg(C)),
     Num(MOVI, "F", C, RegArg(A)), Num(SUBI, "F", B, RegArg(D)), Num(MOVI, "F", D, RegArg(B))>>,
   <<Num(MULI, "F", C, RegArg(B)), Num(MULI, "F", B, RegArg(D)), Num(MOVI, "F", D, RegArg(B))>>}

Identities == {<<t, lines>> : t \in {"I"}, lines \in BothSides("I")}
                \cup {<<t, lines>> : t \in {"B"}, lines \in BothSides("B")}
                \cup {<<t, lines>> : t \in {"F"}, lines \in FloatSides}

OnConstants(lines, x, y) ==
  [instrs |-> Assembled(lines, 4), constants |-> <<0, 4>>, pool |-> WordBytes(x) \o WordBytes(y)]

IdentityPrograms ==
  {OnConstants(Load2 \o i[2], x, y) : i \in Identities, x \in Operands, y \in Operands}

(* $a the address of the first operand, $b of the second, then any line.   *)
Second == {RegArg(B), AddrArg(B), RegArg(11), ImmArg(<<0>>), ImmArg(<<2>>), ConstArg(0), ConstArg(3)}
Menu == {Line(op, <<x, y>>) : op \in ADDI + 2 .. MAX_OPCODES - 1,
                              x \in {RegArg(A), AddrArg(A)}, y \in Second}

MenuPrograms ==
  {OnConstants(<<Line(LDCA, <<RegArg(A), ConstArg(0)>>), Line(load, <<RegArg(B), ConstArg(1)>>), line>>, x, y) :
     load \in {LDCI, LDCA}, line \in Menu, x \in {6, 128}, y \in {0, 2, 255}}

MCPrograms == IdentityPrograms \cup MenuPrograms

(* The two sides of an identity are equal at the end of the program,       *)
(* whatever its operands: the operations agree with each other about       *)
(* signs, wrap-around and the truncation of bytes.                         *)
Same(t, x, y) == Truncate(t, x) = Truncate(t, y)
BothSidesAgree ==
  \A i \in Identities :
    status = "exited" /\ code.instrs = Assembled(Load2 \o i[2], 4) => Same(i[1], regs[C], regs[D])
=============================================================================
