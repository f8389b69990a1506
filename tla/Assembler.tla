----------------------------- MODULE Assembler ------------------------------
(***************************************************************************)
(* compile of src/assembler.c: four passes over the lines of a program.    *)
(* parse numbers the instructions, parseLabels lists the labels,           *)
(* parseConstants lists the constants and then lays them out in the RAM,   *)
(* parseInstructions encodes.  A step is one turn of one of the loops.     *)
(*                                                                         *)
(* A line is what parseLine made of it:                                    *)
(*   [kind: "constant", name, value]   .favre 4                            *)
(*   [kind: "label", name]             :loop                               *)
(*   [kind: "code", op, args]          addi $a #1                          *)
(* and a constant's value, by what parseConstant looks at,                 *)
(*   [form: "string", chars]  [form: "int", n]  [form: "float", word]      *)
(*   [form: "absent"]  .x      [form: "invalid"]  .x 1.2.3                 *)
(*   [form: "quote"]   .x "                                                *)
(***************************************************************************)
EXTENDS Encoding, SharedRam, FiniteSets

CONSTANTS
  Sources,          \* the programs a run may assemble
  FreshRam,         \* what malloc may leave in the RAM
  FreshLinks,       \* and in a pointer: "null", "wild"
  PastBuffer        \* whose the byte behind a malloced string is: "padding", "heap"

ASSUME FreshAssumption ==
  /\ FreshRam \subseteq [Cell -> Byte]
  /\ FreshLinks \subseteq {"null", "wild"}
  /\ PastBuffer \subseteq {"padding", "heap"} /\ PastBuffer # {}

VARIABLES
  source,           \* the lines of the file, never changed
  stage,            \* the pass that is running, or how the process ended
  at,               \* the next element of the list the pass walks
  address,          \* the counter of parse
  instrs,           \* program.instrs: the lines with their addresses
  labels,           \* program.labels
  constants,        \* program.constants
  addresses,        \* the table parseConstants returns
  h,                \* ramAddress, and $h after it
  words             \* the result of parseInstructions

asmVars == <<source, stage, at, address, instrs, labels, constants, addresses, ram, h, words>>

Passes == <<"parse", "labels", "constants", "layout", "instructions", "assembled">>
Failures == {"rejected", "access_violation", "undefined"}

AsmInit ==
  /\ source \in Sources
  /\ stage = "parse" /\ at = 1 /\ address = 0
  /\ instrs = <<>> /\ labels = <<>> /\ constants = <<>> /\ addresses = <<>> /\ words = <<>>
  /\ ram \in FreshRam
  /\ h = 0

-----------------------------------------------------------------------------
(* The list the pass walks, its current element, and what ends the pass.   *)
Walked == CASE stage = "parse"  -> source
            [] stage = "layout" -> constants
            [] stage \in {"labels", "constants", "instructions"} -> instrs

current == Walked[at]

In(pass) == stage = pass /\ at <= Len(Walked)

(* The process ends, by exit(32), by CHECK_RANGE or in a wild access.      *)
Fail(reason) ==
  /\ stage' = reason
  /\ UNCHANGED <<source, at, address, instrs, labels, constants, addresses, ram, h, words>>

(* The last node of the list of labels or of constants has no next: what   *)
(* malloc left there is taken for one when the layout loop, a search for   *)
(* an undefined label or freeLabels comes to it.                           *)
Behind(list) == IF list = <<>> THEN {"null"} ELSE FreshLinks

EndPass ==
  /\ \E k \in 1 .. Len(Passes) - 1 :
       /\ stage = Passes[k]
       /\ at > Len(Walked)
       /\ \E link \in (CASE stage = "layout" -> Behind(constants)
                         [] stage = "instructions" -> Behind(labels)
                         [] stage \in {"parse", "labels", "constants"} -> {"null"}) :
            stage' = IF link = "wild" THEN "undefined" ELSE Passes[k + 1]
  /\ at' = 1
  /\ UNCHANGED <<source, address, instrs, labels, constants, addresses, ram, h, words>>

-----------------------------------------------------------------------------
(* Mutant: labels take an address of their own.                            *)
ParseLineCountingLabels ==
  /\ In("parse")
  /\ instrs' = Append(instrs, [line |-> current, address |-> address])
  /\ address' = address + (IF current.kind # "constant" THEN 1 ELSE 0)
  /\ at' = at + 1
  /\ UNCHANGED <<source, stage, labels, constants, addresses, ram, h, words>>

ParseLine ==
  /\ In("parse")
  /\ instrs' = Append(instrs, [line |-> current, address |-> address])
  /\ address' = address + (IF current.kind = "code" THEN 1 ELSE 0)
  /\ at' = at + 1
  /\ UNCHANGED <<source, stage, labels, constants, addresses, ram, h, words>>

(* Mutant: an address of 0 is taken for none.                              *)
ParseLabelUnlessAtZero ==
  /\ In("labels")
  /\ labels' = IF current.line.kind = "label" /\ current.address > 0
               THEN Append(labels, [name |-> current.line.name, address |-> current.address])
               ELSE labels
  /\ at' = at + 1
  /\ UNCHANGED <<source, stage, address, instrs, constants, addresses, ram, h, words>>

ParseLabel ==
  /\ In("labels")
  /\ labels' = IF current.line.kind = "label"
               THEN Append(labels, [name |-> current.line.name, address |-> current.address])
               ELSE labels
  /\ at' = at + 1
  /\ UNCHANGED <<source, stage, address, instrs, constants, addresses, ram, h, words>>

-----------------------------------------------------------------------------
(* parseConstant.  A number saturates in strtol; one that fits a byte is   *)
(* an INT8.  A string's buffer is one byte short: the byte behind its last *)
(* character is what malloc left there, and the 0 comes after it, outside  *)
(* of the buffer.                                                          *)
Saturated(n) == IF 2 * n >= WordSize THEN WordSize \div 2 - 1
                ELSE IF 2 * n < - WordSize THEN - (WordSize \div 2)
                ELSE n

FitsByte(n) == 2 * n < ByteSize /\ 2 * n >= - ByteSize

parseConstant(name, value) ==
  CASE value.form = "string" ->
         {[name |-> name, kind |-> "STRING",
           bytes |-> value.chars \o (IF g = 0 THEN <<>> ELSE <<g>>) \o <<0>>] : g \in FreshBytes}
    [] value.form = "float"  -> {[name |-> name, kind |-> "FLOAT", bytes |-> WordBytes(value.word)]}
    [] value.form = "int"    ->
         LET n == Saturated(value.n)
         IN  IF FitsByte(n) THEN {[name |-> name, kind |-> "INT8", bytes |-> <<n % ByteSize>>]}
             ELSE {[name |-> name, kind |-> "INT32", bytes |-> WordBytes(n % WordSize)]}

(* The 0 does no harm in the padding malloc left behind the buffer; in the *)
(* heap's own data it is undefined what comes of it.                       *)
ParseConstant ==
  /\ In("constants") /\ current.line.kind = "constant"
  /\ current.line.value.form \in {"string", "int", "float"}
  /\ current.line.value.form = "string" => "padding" \in PastBuffer
  /\ \E constant \in parseConstant(current.line.name, current.line.value) :
       constants' = Append(constants, constant)
  /\ at' = at + 1
  /\ UNCHANGED <<source, stage, address, instrs, labels, addresses, ram, h, words>>

RejectConstant ==
  /\ In("constants") /\ current.line.kind = "constant"
  /\ \/ current.line.value.form \in {"absent", "invalid"} /\ Fail("rejected")
     \/ current.line.value.form = "quote" /\ Fail("undefined")
     \/ current.line.value.form = "string" /\ "heap" \in PastBuffer /\ Fail("undefined")

SkipLine ==
  /\ \/ In("constants") /\ current.line.kind # "constant"
     \/ In("instructions") /\ current.line.kind # "code"
  /\ at' = at + 1
  /\ UNCHANGED <<source, stage, address, instrs, labels, constants, addresses, ram, h, words>>

(* ramStoreString checks the range of the characters only, and stores the  *)
(* terminating 0 behind them.                                              *)
Checked(constant) == Len(constant.bytes) - (IF constant.kind = "STRING" THEN 1 ELSE 0)

(* Mutant: the terminating 0 is not counted.                               *)
StoreConstantWithoutEnd ==
  /\ In("layout")
  /\ \/ /\ CHECK_RANGE(h, Checked(current))
        /\ addresses' = Append(addresses, h)
        /\ ram' = StoreBytes(ram, h, current.bytes)
        /\ h' = h + Checked(current)
        /\ at' = at + 1
        /\ UNCHANGED <<source, stage, address, instrs, labels, constants, words>>
     \/ ~ CHECK_RANGE(h, Checked(current)) /\ Fail("access_violation")

StoreConstant ==
  /\ In("layout")
  /\ \/ /\ CHECK_RANGE(h, Checked(current))
        /\ addresses' = Append(addresses, h)
        /\ ram' = StoreBytes(ram, h, current.bytes)
        /\ h' = h + Len(current.bytes)
        /\ at' = at + 1
        /\ UNCHANGED <<source, stage, address, instrs, labels, constants, words>>
     \/ ~ CHECK_RANGE(h, Checked(current)) /\ Fail("access_violation")

-----------------------------------------------------------------------------
(* Mutant: the cursor stays at the line that was encoded.                  *)
ParseInstructionStays ==
  /\ In("instructions") /\ current.line.kind = "code"
  /\ ~ LineRejected(current.line, labels, constants)
  /\ words' = Append(words, Encode(current.line, labels, constants))
  /\ UNCHANGED <<source, stage, at, address, instrs, labels, constants, addresses, ram, h>>

ParseInstruction ==
  /\ In("instructions") /\ current.line.kind = "code"
  /\ ~ LineRejected(current.line, labels, constants)
  /\ words' = Append(words, Encode(current.line, labels, constants))
  /\ at' = at + 1
  /\ UNCHANGED <<source, stage, address, instrs, labels, constants, addresses, ram, h>>

RejectInstruction ==
  /\ In("instructions") /\ current.line.kind = "code"
  /\ LineRejected(current.line, labels, constants)
  /\ \E link \in (IF SearchesLabel(current.line, labels) THEN Behind(labels) ELSE {"null"}) :
       Fail(IF link = "wild" THEN "undefined" ELSE "rejected")

Finished == stage \in {"assembled"} \cup Failures /\ UNCHANGED asmVars

AsmStep ==
  \/ ParseLine \/ ParseLabel \/ ParseConstant \/ RejectConstant \/ SkipLine \/ StoreConstant
  \/ ParseInstruction \/ RejectInstruction \/ EndPass

AsmNext == AsmStep \/ Finished

AsmSpec == AsmInit /\ [][AsmNext]_asmVars

-----------------------------------------------------------------------------
(* Type invariant.                                                         *)
AsmTypeOK ==
  /\ stage \in {Passes[k] : k \in DOMAIN Passes} \cup Failures
  /\ at \in Nat /\ address \in Nat
  /\ Len(instrs) <= Len(source)
  /\ \A k \in DOMAIN labels : labels[k].address \in 0 .. address
  /\ \A k \in DOMAIN constants : constants[k].bytes \in Seq(Byte)
  /\ addresses \in Seq(Cell)
  /\ ram \in [Cell -> Byte] /\ h \in 0 .. RamSize
  /\ words \in Seq(Instruction)

(* The constants stored so far keep their bytes while later ones are laid  *)
(* out behind them and instructions are encoded, none of them reaches out  *)
(* of the RAM, and $h is above all of them.                                *)
PoolIsIntact ==
  \A k \in DOMAIN addresses :
    /\ addresses[k] + Len(constants[k].bytes) <= h
    /\ h <= RamSize
    /\ \A j \in DOMAIN constants[k].bytes : ram[addresses[k] + j - 1] = constants[k].bytes[j]

(* compile comes to an end: each pass walks over a list that is no longer  *)
(* than the file, and over nothing a second time.                          *)
PassesAfter ==
  [parse |-> 5, labels |-> 4, constants |-> 3, layout |-> 2, instructions |-> 1, assembled |-> 0]
AsmTurnsLeft ==
  IF stage \in Failures THEN 0
  ELSE PassesAfter[stage] * (Len(source) + 2) + (Len(source) + 2 - at)
EveryPassAdvances == [][AsmTurnsLeft' \in 0 .. AsmTurnsLeft - 1]_asmVars

-----------------------------------------------------------------------------
(* Properties of the finished program.                                     *)

(* How many lines of a kind stand above the k-th line.                     *)
LinesAbove(lines, kind, k) == Cardinality({j \in 1 .. k - 1 : lines[j].kind = kind})

Codes == {k \in DOMAIN source : source[k].kind = "code"}

(* The word of a line of code: parseInstructions has one for each.         *)
WordOf(k) == words[LinesAbove(source, "code", k) + 1]

FirstLine(kind, name) ==
  CHOOSE k \in DOMAIN source :
    /\ source[k].kind = kind /\ source[k].name = name
    /\ \A j \in 1 .. k - 1 : ~ (source[j].kind = kind /\ source[j].name = name)

(* The addresses parse counts are the indices parseInstructions fills: a   *)
(* jump, or a label moved into a register, selects exactly the code that   *)
(* stands below the first definition of its label, wherever the label,     *)
(* constants and other labels stand in the file.                           *)
NamesLabel(line) == line.args # <<>> /\ Last(line.args).kind = "label"
LabelsSelectTheirCode ==
  stage = "assembled" =>
    \A k \in Codes : NamesLabel(source[k]) =>
      LET target == IF Jumps(source[k]) THEN ARG_JMP_VALUE(WordOf(k)) ELSE ARG2_VALUE(WordOf(k))
          label  == FirstLine("label", Last(source[k].args).name)
      IN  target = LinesAbove(source, "code", label)

(* An accepted line is encoded so that the macros of bytecode.h give back  *)
(* its opcode and its operands, whatever is combined with what; not an     *)
(* opcode that reaches the sign bit, nor a negative number.  The operand   *)
(* of JMP and CALL and one of no known form are not judged here.           *)
SaysArg2(arg, w) ==
  CASE arg.kind \in {"reg", "addr"} /\ arg.reg >= 0 ->
         IS_ARG2_REG(w) /\ IS_ARG2_ADDR(w) = (arg.kind = "addr") /\ ARG2_VALUE(w) = arg.reg
    [] arg.kind = "imm" ->
         ~ IS_ARG2_REG(w) /\ IS_ARG2_IMM(w) /\ ARG2_VALUE(w) = parseImmediateNumber(arg)
    [] arg.kind = "label" -> ~ IS_ARG2_REG(w) /\ IS_ARG2_IMM(w)
    [] arg.kind = "const" ->
         /\ ~ IS_ARG2_REG(w) /\ ~ IS_ARG2_IMM(w)
         /\ ARG2_VALUE(w) + 1 \in DOMAIN constants
         /\ constants[ARG2_VALUE(w) + 1].name = arg.name
    [] OTHER -> TRUE

Says(line, w) ==
  /\ OPCODE(w) = line.op
  /\ Len(line.args) = 2 => /\ ARG1_VALUE(w) = line.args[1].reg
                           /\ IS_ARG1_ADDR(w) = (line.args[1].kind = "addr")
  /\ line.args # <<>> /\ ~ Jumps(line) => SaysArg2(Last(line.args), w)

Sayable(line) ==
  /\ line.op < 32
  /\ line.args # <<>> /\ Last(line.args).kind = "imm" => parseImmediateNumber(Last(line.args)) >= 0

WordsSayTheirLine ==
  stage = "assembled" =>
    /\ Len(words) = Cardinality(Codes)
    /\ \A k \in Codes : Sayable(source[k]) => Says(source[k], WordOf(k))

-----------------------------------------------------------------------------
(* The mistakes compile refuses: a constant without a value that can be    *)
(* read, or an instruction that is ill-formed given all names the file     *)
(* defines, before or after it.  Ill-formed is what the code's own tests   *)
(* say: `pushi 12' is a line, of constant 0.                               *)
Named(kind) == [k \in {j \in DOMAIN source : source[j].kind = kind} |-> source[k]]

IllFormed(line) ==
  CASE line.kind = "constant" -> line.value.form \in {"absent", "invalid"}
    [] line.kind = "code"     -> LineRejected(line, Named("label"), Named("constant"))
    [] line.kind = "label"    -> FALSE

-----------------------------------------------------------------------------
(* What the documentation says of single lines.                            *)
Encoded(k) == OPCODE(WordOf(k)) = source[k].op

(* The first 6 bits "are to always used to identify the opcode": those of  *)
(* the whole table of operation codes, ...                                 *)
OpcodesReadBack == \A k \in Codes : source[k].op >= 32 => Encoded(k)

(* ... whatever the sign of the number behind a #.                         *)
NumbersLeaveOpcodesAlone ==
  \A k \in Codes :
    source[k].op < 32 /\ source[k].args # <<>> /\ Last(source[k].args).kind = "imm" => Encoded(k)

(* JMP: "Moves the program counter to position $v".                        *)
JumpsToItsNumber ==
  \A k \in Codes : Jumps(source[k]) /\ source[k].args[1].kind = "imm" =>
    ARG_JMP_VALUE(WordOf(k)) = parseImmediateNumber(source[k].args[1])

(* "The `&' in front of a register means to treat the value in the         *)
(* register as a memory address": POP and DUP look for it at argument 1.   *)
DestinationsAreAddresses ==
  \A k \in Codes : source[k].op \in POPI .. DUPI + 2 /\ source[k].args[1].kind = "addr" =>
    IS_ARG1_ADDR(WordOf(k))

(* ".favre 4 ... when it is referenced, the number 4 is used", with pushi, *)
(* which reads the constant as a 32 bit int.                               *)
Stored(name) == {addresses[k] : k \in {j \in DOMAIN addresses : constants[j].name = name}}
Values(form) == {source[j] : j \in {i \in DOMAIN source : source[i].kind = "constant" /\ source[i].value.form = form}}

NumbersReadAsInts ==
  \A c \in Values("int") : \E a \in Stored(c.name) :
    CHECK_RANGE(a, 4) /\ SignedWord(ReadInt32(ram, a)) = c.value.n

(* "strings are null terminated": behind the characters comes the 0.       *)
StringsEndWhereTheyShould ==
  \A c \in Values("string") : \E a \in Stored(c.name) : ram[a + Len(c.value.chars)] = 0

(* At least one of the six is true of every program compile returns: a     *)
(* program for which this is false refutes all of them.                    *)
SomeStatementHolds ==
  stage = "assembled" =>
    \/ OpcodesReadBack \/ NumbersLeaveOpcodesAlone \/ JumpsToItsNumber
    \/ DestinationsAreAddresses \/ NumbersReadAsInts \/ StringsEndWhereTheyShould
=============================================================================
