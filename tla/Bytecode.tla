------------------------------ MODULE Bytecode ------------------------------
(***************************************************************************)
(* The instruction word of src/bytecode.h: opcode numbers, field masks and *)
(* the macros that take a word apart.                                      *)
(*                                                                         *)
(* An Instruction is an int32_t, written here as the integer it denotes.   *)
(* On a two's complement integer `i >> k' is the floor division by 2^k and *)
(* `i & (2^k - 1)' the non-negative remainder, so `\div' and `%' are the   *)
(* shifts and masks of the macros, negative words included.                *)
(***************************************************************************)
EXTENDS Integers

Instruction == {i \in Int : -2147483647 - 1 <= i /\ i <= 2147483647}

(* Opcodes come in flavours: 32 bit int, 32 bit float and 8 bit byte.      *)
(* The enum numbers them consecutively, so PUSHF is PUSHI + Flavour["F"].  *)
Flavours == {"I", "F", "B"}
Flavour  == [I |-> 0, F |-> 1, B |-> 2]

NOOP   == 0
MOVI   == 1
LDCI   == 4
LDCA   == 7
PUSHI  == 8
POPI   == 11
DUPI   == 14
IFI    == 17
IFEI   == 20
JMP    == 23
PRINTI == 24
PRINTC == 27
CALL   == 28
RET    == 29
ADDI   == 30
SUBI   == 33
MULI   == 36
DIVI   == 39
MODI   == 42
ORI    == 45
ORB    == 46
ANDI   == 47
ANDB   == 48
NOTI   == 49
NOTB   == 50
XORI   == 51
XORB   == 52
SZRLI  == 53
SZRLB  == 54
SRLI   == 55
SRLB   == 56
SLLI   == 57
SLLB   == 58
MAX_OPCODES == 59

(* The number of arguments an assembly line gives to an opcode.            *)
opcodeNumArgs(op) ==
  IF op \in {RET, NOOP} THEN 0
  ELSE IF op \in (PUSHI .. DUPI + 2) \cup {JMP, CALL} \cup (PRINTI .. PRINTC)
       THEN 1 ELSE 2

-----------------------------------------------------------------------------
(* Weights of the fields: 2^26, 2^21, 2^20, 2^19 and 2^24.                 *)
OPCODE_SHIFT        == 67108864
ARG1_SHIFT          == 2097152
ARG1_ADDR_MASK      == 16
ARG2_REG_MASK       == 1048576
ARG2_ADDR_MASK      == 524288
ARG2_IMM_MASK       == 524288
MAX_IMMEDIATE_VALUE == 524287
JMP_LIMIT           == 16777216

(* `instruction >> OPCODE_SHIFT' keeps the sign: OPCODE_MASK is not used.  *)
OPCODE(i) == i \div OPCODE_SHIFT

IS_ARG1_ADDR(i) == (i \div ARG1_SHIFT) % 32 >= ARG1_ADDR_MASK
ARG1_VALUE(i)   == (i \div ARG1_SHIFT) % ARG1_ADDR_MASK

IS_ARG2_REG(i)  == (i \div ARG2_REG_MASK) % 2 = 1
IS_ARG2_ADDR(i) == (i \div ARG2_ADDR_MASK) % 2 = 1
IS_ARG2_IMM(i)  == (i \div ARG2_IMM_MASK) % 2 = 1
ARG2_VALUE(i)   == i % ARG2_IMM_MASK

ARG_JMP_VALUE(i) == i % JMP_LIMIT
=============================================================================
