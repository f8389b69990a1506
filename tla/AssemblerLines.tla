--------------------------- MODULE AssemblerLines ---------------------------
(***************************************************************************)
(* The lines parseLine and the tokens it makes can be: what the passes of  *)
(* Assembler may rely on, whatever the text of the program.                *)
(***************************************************************************)
EXTENDS Assembler

IsSequence(s) == s \in Seq({s[k] : k \in DOMAIN s})

(* A register's index fits the 4 bits it has in an instruction, or it is   *)
(* the -1 of an unknown name.  Digits make a natural number, and strtol    *)
(* returns one of 32 bits.                                                 *)
IsArgument(arg) ==
  \/ arg.kind \in {"reg", "addr"} /\ arg.reg \in -1 .. ARG1_ADDR_MASK - 1
  \/ /\ arg.kind = "imm" /\ Numeral(arg.base, arg.digits) \in Nat
     /\ parseImmediateNumber(arg) \in Instruction /\ JmpImmediate(arg) \in Nat
  \/ arg.kind \in {"label", "const", "other"}

IsConstantValue(value) ==
  \/ value.form = "string" /\ value.chars \in Seq(Byte)
  \/ value.form = "int" /\ value.n \in Int
  \/ value.form = "float" /\ value.word \in Word
  \/ value.form \in {"absent", "invalid", "quote"}

IsLine(line) ==
  \/ line.kind = "constant" /\ IsConstantValue(line.value)
  \/ line.kind = "label"
  \/ /\ line.kind = "code"
     /\ line.op \in -1 .. MAX_OPCODES - 1
     /\ IsSequence(line.args) /\ \A k \in DOMAIN line.args : IsArgument(line.args[k])

(* Addresses and indices of constants have the bits of an immediate: an    *)
(* argument that names line 2^19 of a program has no encoding.             *)
IsSource(lines) ==
  /\ IsSequence(lines) /\ Len(lines) <= MAX_IMMEDIATE_VALUE
  /\ \A k \in DOMAIN lines : IsLine(lines[k])

ASSUME SourcesAssumption == \A lines \in Sources : IsSource(lines)
=============================================================================
