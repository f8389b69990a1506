---------------------------- MODULE Disassembler ----------------------------
(***************************************************************************)
(* disassemble of src/assembler.c, and the tables by which names become    *)
(* numbers and numbers names.  A listed line is the name of its opcode and *)
(* its arguments, each                                                     *)
(*   [kind: "reg" or "addr", name]   $a, &$a                               *)
(*   [kind: "imm", n]   #12          [kind: "number", n]   12              *)
(*   [kind: "wild"]     what an index outside of a table reads             *)
(* Names are upper case: opcodes are compared without regard to case, and  *)
(* registers are known in either.                                          *)
(***************************************************************************)
EXTENDS Encoding

OpcodeStr ==
  <<"NOOP", "MOVI", "MOVF", "MOVB", "LDCI", "LDCF", "LDCB", "LDCA",
    "PUSHI", "PUSHF", "PUSHB", "POPI", "POPF", "POPB", "DUPI", "DUPF", "DUPB",
    "IFI", "IFF", "IFB", "IFEI", "IFEF", "IFEB", "JMP",
    "PRINTI", "PRINTF", "PRINTB", "PRINTC", "CALL", "RET",
    "ADDI", "ADDF", "ADDB", "SUBI", "SUBF", "SUBB", "MULI", "MULF", "MULB",
    "DIVI", "DIVF", "DIVB", "MODI", "MODF", "MODB",
    "ORI", "ORB", "ANDI", "ANDB", "NOTI", "NOTB", "XORI", "XORB",
    "SZRLI", "SZRLB", "SRLI", "SRLB", "SLLI", "SLLB">>

RegisterNames ==
  <<"$SP", "$PC", "$R", "$H", "$A", "$B", "$C", "$D", "$I", "$J", "$K", "$U">>

(* A name's place in a table, counted from 0, or -1.                       *)
PlaceIn(table, name) ==
  IF \E k \in DOMAIN table : table[k] = name
  THEN (CHOOSE k \in DOMAIN table : table[k] = name) - 1 ELSE -1

opcodeFromString(name) == PlaceIn(OpcodeStr, name)

(* A chain of comparisons in the code.                                     *)
cpuGetRegisterIndex(name) ==
  CASE name = "$SP" -> 0 [] name = "$PC" -> 1 [] name = "$R" -> 2  [] name = "$H" -> 3
    [] name = "$A" -> 4  [] name = "$B" -> 5  [] name = "$C" -> 6  [] name = "$D" -> 7
    [] name = "$I" -> 8  [] name = "$J" -> 9  [] name = "$K" -> 10 [] name = "$U" -> 11
    [] OTHER -> -1

-----------------------------------------------------------------------------
ShownRegister(index, isAddr) ==
  IF index + 1 \notin DOMAIN RegisterNames THEN [kind |-> "wild"]
  ELSE [kind |-> IF isAddr THEN "addr" ELSE "reg", name |-> RegisterNames[index + 1]]

ShownNumber(n) == [kind |-> "number", n |-> n]

(* The entry of the table of constants: the address of the constant.       *)
ShownConstant(index, table) ==
  IF index + 1 \in DOMAIN table THEN ShownNumber(table[index + 1]) ELSE [kind |-> "wild"]

ShownArg2AsRegister(w, table) == ShownRegister(ARG2_VALUE(w), IS_ARG2_ADDR(w))    \* mutant
ShownArg2(w, table) ==
  CASE OPCODE(w) \in {LDCI + Flavour["F"], LDCA} \/ (OPCODE(w) \in LDCI .. LDCA /\ ~ IS_ARG2_IMM(w))
         -> ShownConstant(ARG2_VALUE(w), table)
    [] OPCODE(w) \in {LDCI, LDCI + Flavour["B"]} /\ IS_ARG2_IMM(w) -> ShownNumber(ARG2_VALUE(w))
    [] OPCODE(w) \notin LDCI .. LDCA /\ IS_ARG2_REG(w) -> ShownRegister(ARG2_VALUE(w), IS_ARG2_ADDR(w))
    [] OPCODE(w) \notin LDCI .. LDCA /\ ~ IS_ARG2_REG(w)
         -> IF IS_ARG2_IMM(w) THEN [kind |-> "imm", n |-> ARG2_VALUE(w)] ELSE ShownNumber(ARG2_VALUE(w))

ShownArgs(w, table) ==
  IF OPCODE(w) \in {JMP, CALL} THEN <<ShownNumber(ARG_JMP_VALUE(w))>>
  ELSE (IF opcodeNumArgs(OPCODE(w)) = 2
        THEN <<ShownRegister(ARG1_VALUE(w), IS_ARG1_ADDR(w))>> ELSE <<>>)
       \o (IF opcodeNumArgs(OPCODE(w)) > 0 THEN <<ShownArg2(w, table)>> ELSE <<>>)

(* The listing of the word w of a program with the given constants, if its *)
(* opcode has a name.                                                      *)
HasName(w) == OPCODE(w) + 1 \in DOMAIN OpcodeStr

Listed(w, table) == [name |-> OpcodeStr[OPCODE(w) + 1], args |-> ShownArgs(w, table)]

IsDefined(w, table) ==
  HasName(w) /\ \A k \in DOMAIN ShownArgs(w, table) : ShownArgs(w, table)[k].kind # "wild"

-----------------------------------------------------------------------------
(* The line one would write to get what a listing shows, unless it shows a *)
(* number that is no operand: parsed, it has to be the same word.          *)
Writable(listed) == \A k \in DOMAIN listed.args : listed.args[k].kind \in {"reg", "addr", "imm"}

AsWritten(arg) ==
  IF arg.kind = "imm" THEN [kind |-> "imm", base |-> 10, digits |-> <<arg.n>>, neg |-> FALSE]
  ELSE [kind |-> arg.kind, reg |-> cpuGetRegisterIndex(arg.name)]

LineShown(listed) ==
  [op   |-> opcodeFromString(listed.name),
   args |-> [k \in DOMAIN listed.args |-> AsWritten(listed.args[k])]]
=============================================================================
