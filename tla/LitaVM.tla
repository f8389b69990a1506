------------------------------- MODULE LitaVM -------------------------------
(***************************************************************************)
(* main of src/main.c: the command line, then readFile, vmInit, compile,   *)
(* disassemble, vmExecute and the end of the process.  compile is the      *)
(* module Assembler and vmExecute the module Vm, on one SharedRam.         *)
(*                                                                         *)
(* An argument is [kind: "option", name], [kind: "number", n] or           *)
(* [kind: "file", path].                                                   *)
(*                                                                         *)
(* The machine of those modules has RamSize bytes of RAM.  A command line  *)
(* that makes vmInit allocate another RAM ends in the phase "otherRam":    *)
(* what it does from there is that of this module with its RamSize.        *)
(***************************************************************************)
EXTENDS Vm, AssemblerLines, Disassembler

CONSTANTS
  Files,            \* a function from file names to their lines
  CommandLines,     \* sequences of arguments
  Expected,         \* what some of them should print
  DefaultRam, DefaultStack,     \* 1048576 and 1024 in the program
  LongMax, SizeMax,             \* of the build's long and size_t
  RamHeader,                    \* sizeof(Ram)
  MaxBlock                      \* the largest block malloc has

ASSUME FilesAssumption == Files \in [DOMAIN Files -> Sources]
ASSUME CommandLinesAssumption ==
  \A line \in CommandLines :
    IsSequence(line) /\ \A k \in DOMAIN line : line[k].kind = "number" => line[k].n \in Int

size_t == 0 .. SizeMax

ASSUME SizesAssumption ==
  /\ LongMax \in Nat /\ SizeMax \in Nat /\ RamHeader \in Nat /\ MaxBlock \in Nat
  /\ DefaultRam \in size_t /\ DefaultStack \in size_t

(* disassemble has a name for each register of the machine.                *)
ASSUME RegisterNamesAssumption == NumRegs <= Len(RegisterNames)

VARIABLES
  argv, i,          \* the arguments and the next one
  ramSize, stackSize, displayDisassembly, filename,
  phase,            \* where main is
  exit,             \* the exit code, once phase is "over"
  listing           \* the lines disassemble printed

optionVars  == <<i, ramSize, stackSize, displayDisassembly, filename>>
compileVars == <<source, stage, at, address, instrs, labels, constants, addresses, h, words>>
machineVars == <<code, regs, pc, status, out>>
mainVars    == <<argv, optionVars, phase, exit, listing, compileVars, machineVars, ram>>

NULL == [kind |-> "none"]

Phases == {"options", "readFile", "vmInit", "compile", "disassemble", "execute", "over", "otherRam"}

MainInit ==
  /\ argv \in CommandLines /\ i = 1
  /\ ramSize = DefaultRam /\ stackSize = DefaultStack
  /\ displayDisassembly = FALSE /\ filename = NULL
  /\ phase = "options" /\ exit = -1 /\ listing = <<>>
  /\ source = <<>> /\ stage = "parse" /\ at = 1 /\ address = 0 /\ h = 0
  /\ instrs = <<>> /\ labels = <<>> /\ constants = <<>> /\ addresses = <<>> /\ words = <<>>
  /\ code = [instrs |-> <<>>, constants |-> <<>>, pool |-> <<>>]
  /\ regs = [r \in Reg |-> 0] /\ ram = [c \in Cell |-> 0]
  /\ pc = 0 /\ status = "running" /\ out = <<>>

(* The process ends with an exit code, as C leaves undefined, or in a trap *)
(* the build has put before an overflow.                                   *)
Exit(n) == phase' = "over" /\ exit' = n
Undefined == -2
Trapped   == -3

-----------------------------------------------------------------------------
(* The options, in any order; a parameter is whatever follows its option,  *)
(* and the last file name counts.                                          *)
Unchanged == UNCHANGED <<argv, listing, compileVars, machineVars, ram>>

InOptions(names) ==
  /\ phase = "options" /\ i <= Len(argv)
  /\ argv[i].kind = "option" /\ argv[i].name \in names

(* strtol saturates at the limits of a long, and reads nothing but a       *)
(* number as one.                                                          *)
strtol(arg) ==
  CASE arg.kind # "number"     -> 0
    [] arg.n > LongMax       -> LongMax
    [] arg.n < - LongMax - 1 -> - LongMax - 1
    [] OTHER                 -> arg.n

asSizeSigned(n) == n                        \* mutant
asSize(n)       == n % (SizeMax + 1)        \* (size_t) n

DisassemblyOption ==
  /\ InOptions({"-d"})
  /\ displayDisassembly' = TRUE /\ i' = i + 1
  /\ UNCHANGED <<ramSize, stackSize, filename, phase, exit>> /\ Unchanged

SizeOption ==
  /\ InOptions({"-s", "-r"}) /\ i < Len(argv)
  /\ IF argv[i].name = "-s" THEN stackSize' = asSize(strtol(argv[i + 1])) /\ UNCHANGED ramSize
     ELSE ramSize' = asSize(strtol(argv[i + 1])) /\ UNCHANGED stackSize
  /\ i' = i + 2
  /\ UNCHANGED <<displayDisassembly, filename, phase, exit>> /\ Unchanged

MissingParameter ==
  /\ InOptions({"-s", "-r"}) /\ i = Len(argv)
  /\ Exit(2)
  /\ UNCHANGED optionVars /\ Unchanged

(* Mutant: the name is taken for the next argument again.                  *)
FileArgumentStays ==
  /\ phase = "options" /\ i <= Len(argv)
  /\ argv[i].kind # "option"
  /\ filename' = argv[i]
  /\ UNCHANGED <<i, ramSize, stackSize, displayDisassembly, phase, exit>> /\ Unchanged

FileArgument ==
  /\ phase = "options" /\ i <= Len(argv)
  /\ argv[i].kind # "option"
  /\ filename' = argv[i] /\ i' = i + 1
  /\ UNCHANGED <<ramSize, stackSize, displayDisassembly, phase, exit>> /\ Unchanged

(* Without a file name the usage is shown, and nothing is wrong.           *)
EndOfOptions ==
  /\ phase = "options" /\ i > Len(argv)
  /\ IF filename = NULL THEN Exit(0) ELSE phase' = "readFile" /\ UNCHANGED exit
  /\ UNCHANGED optionVars /\ Unchanged

-----------------------------------------------------------------------------
readFile ==
  /\ phase = "readFile"
  /\ \/ /\ filename \in DOMAIN Files
        /\ source' = Files[filename]
        /\ phase' = "vmInit" /\ UNCHANGED exit
     \/ Exit(1) /\ UNCHANGED source    \* no file, no memory, not readable
  /\ UNCHANGED <<argv, optionVars, listing, stage, at, address, instrs, labels, constants,
                 addresses, h, words, machineVars, ram>>

(* The block ramInit asks for: its sum is a size_t and wraps.              *)
Allocated == (RamHeader + ramSize) % (SizeMax + 1)
RamIsThere == Allocated \in RamHeader .. MaxBlock

(* ramInit writes the header of a block that may be none, or too short.    *)
vmInit ==
  /\ phase = "vmInit"
  /\ \/ stackSize > ramSize /\ Exit(2) /\ UNCHANGED <<regs, ram>>
     \/ stackSize <= ramSize /\ ~ RamIsThere /\ Exit(Undefined) /\ UNCHANGED <<regs, ram>>
     \/ /\ stackSize <= ramSize /\ RamIsThere /\ ramSize # RamSize
        /\ phase' = "otherRam"
        /\ UNCHANGED <<regs, ram, exit>>
     \/ /\ stackSize <= ramSize /\ RamIsThere /\ ramSize = RamSize
        /\ phase' = "compile"
        /\ \E fresh \in [Reg -> FreshWords] : regs' = [fresh EXCEPT ![SP] = ramSize - 1]
        /\ ram' \in FreshRam
        /\ UNCHANGED exit
  /\ UNCHANGED <<argv, optionVars, listing, compileVars, code, pc, status, out>>

compile ==
  /\ phase = "compile" /\ AsmStep
  /\ UNCHANGED <<argv, optionVars, phase, exit, listing, machineVars>>

(* parseError, CHECK_RANGE in the constants, a wild pointer.               *)
CompileFails ==
  /\ phase = "compile" /\ stage \in Failures
  /\ Exit(CASE stage = "rejected" -> 32 [] stage = "access_violation" -> 2 [] stage = "undefined" -> Undefined)
  /\ UNCHANGED optionVars /\ Unchanged

(* Mutant: $h is left as malloc returned it.                               *)
CompileReturnsWithoutHeap ==
  /\ phase = "compile" /\ stage = "assembled"
  /\ code' = [instrs |-> words, constants |-> addresses, pool |-> [k \in 1 .. h |-> ram[k - 1]]]
  /\ phase' = IF displayDisassembly THEN "disassemble" ELSE "execute"
  /\ UNCHANGED <<argv, optionVars, exit, listing, compileVars, regs, pc, status, out, ram>>

(* The Bytecode that compile returns, and the $h it set.                   *)
CompileReturns ==
  /\ phase = "compile" /\ stage = "assembled"
  /\ code' = [instrs |-> words, constants |-> addresses, pool |-> [k \in 1 .. h |-> ram[k - 1]]]
  /\ regs' = [regs EXCEPT ![H] = h]
  /\ phase' = IF displayDisassembly THEN "disassemble" ELSE "execute"
  /\ UNCHANGED <<argv, optionVars, exit, listing, compileVars, pc, status, out, ram>>

-----------------------------------------------------------------------------
(* A word at a time; an opcode without a name, a register that is none or  *)
(* a constant that is none reads outside of a table.                       *)
disassemble ==
  /\ phase = "disassemble" /\ Len(listing) < Len(code.instrs)
  /\ LET w == code.instrs[Len(listing) + 1]
     IN  IF IsDefined(w, code.constants)
         THEN listing' = Append(listing, Listed(w, code.constants)) /\ UNCHANGED <<phase, exit>>
         ELSE Exit(Undefined) /\ UNCHANGED listing
  /\ UNCHANGED <<argv, optionVars, compileVars, machineVars, ram>>

EndOfListing ==
  /\ phase = "disassemble" /\ Len(listing) = Len(code.instrs)
  /\ phase' = "execute"
  /\ UNCHANGED <<optionVars, exit>> /\ Unchanged

vmExecute ==
  /\ phase = "execute" /\ Step
  /\ UNCHANGED <<argv, optionVars, phase, exit, listing, compileVars>>

(* vmError, or the return from vmExecute: main frees what it allocated and *)
(* returns 0.                                                              *)
EndOfMain ==
  /\ phase = "execute" /\ status # "running"
  /\ Exit(CASE status = "exited" -> 0 [] status = "undefined" -> Undefined
             [] status = "overflow" -> Trapped [] OTHER -> 2)
  /\ UNCHANGED optionVars /\ Unchanged

Over == phase \in {"over", "otherRam"} /\ UNCHANGED mainVars

MainStep ==
  \/ DisassemblyOption \/ SizeOption \/ MissingParameter \/ FileArgument \/ EndOfOptions
  \/ readFile \/ vmInit \/ compile \/ CompileFails \/ CompileReturns
  \/ disassemble \/ EndOfListing \/ vmExecute \/ EndOfMain

MainNext == MainStep \/ Over

MainSpec == MainInit /\ [][MainNext]_mainVars

(* One thread that waits for nothing.                                      *)
FairMainSpec == MainSpec /\ WF_mainVars(MainStep)

-----------------------------------------------------------------------------
(* Type invariant.                                                         *)
MainTypeOK ==
  /\ phase \in Phases /\ i \in 1 .. Len(argv) + 1
  /\ ramSize \in size_t /\ stackSize \in size_t
  /\ exit \in {Trapped, Undefined, -1, 0, 1, 2, 32} /\ (exit = -1 <=> phase # "over")
  /\ Len(listing) <= Len(words)
  /\ phase \in {"disassemble", "execute"} => stage = "assembled"
  /\ code \in Program /\ regs \in [Reg -> Word] /\ ram \in [Cell -> Byte]

(* compile hands over what vmExecute takes for granted: the state is one   *)
(* the machine starts from, its constants are in the RAM, below $h, and    *)
(* the table of addresses points at them.                                  *)
MachineIsReady ==
  /\ code \in Program /\ pc = 0 /\ status = "running" /\ out = <<>>
  /\ regs[SP] = RamSize - 1 /\ regs[H] = Len(code.pool)
  /\ \A k \in DOMAIN constants : code.constants[k] + Len(constants[k].bytes) <= regs[H]
  /\ \A k \in DOMAIN code.pool : ram[k - 1] = code.pool[k]

HandsOverAReadyMachine ==
  [][phase # "execute" /\ phase' = "execute" => MachineIsReady']_mainVars

(* A file is refused, with exit code 32, only if one of its lines is       *)
(* ill-formed given all names the file defines, before or after it; and a  *)
(* program that is started has no such line.  (A file with one may also    *)
(* end at a constant the RAM has no room for, with exit code 2.)           *)
RefusesIllFormedFiles ==
  /\ exit = 32 => \E k \in DOMAIN source : IllFormed(source[k])
  /\ phase \in {"disassemble", "execute"} => \A k \in DOMAIN source : ~ IllFormed(source[k])

(* The operands the README's tables give to an opcode of the machine: no   *)
(* immediate floats, a constant for LDC, a register for POP and DUP, a     *)
(* label for JMP and CALL.                                                 *)
FloatOpcodes == {MOVI + 1, PUSHI + 1, IFI + 1, IFEI + 1, PRINTI + 1, ADDI + 1}

DocumentedLastArg(op, kind) ==
  CASE op \in LDCI .. LDCA     -> kind = "const"
    [] op \in POPI .. DUPI + 2 -> kind = "reg"
    [] op \in {JMP, CALL}      -> kind = "label"
    [] OTHER -> kind \in {"reg", "addr", "const"} \/ (kind = "imm" /\ op \notin FloatOpcodes)

DocumentedLine(line) ==
  line.kind = "code" =>
    /\ line.op < ADDI + 2
    /\ line.args # <<>> => DocumentedLastArg(line.op, Last(line.args).kind)
    /\ \A k \in DOMAIN line.args :
         /\ line.args[k].kind \in {"reg", "addr"} => line.args[k].reg \in Reg
         /\ line.args[k].kind = "imm" => ~ line.args[k].neg

(* A file of documented lines without a string never makes the program     *)
(* leave an allocation, once it has its RAM: whatever compile accepts of   *)
(* it are operands that disassemble finds in its tables and vmExecute in   *)
(* its arrays.  A string is no part of it: parseConstant writes the end of *)
(* every one behind its buffer.                                            *)
DocumentedProgramsAreSafe ==
  /\ RamIsThere
  /\ \A k \in DOMAIN source :
       /\ DocumentedLine(source[k])
       /\ source[k].kind = "constant" => source[k].value.form \notin {"string", "quote"}
  => exit # Undefined

(* A size of RAM that vmInit does not call invalid is a RAM of that size.  *)
AcceptedSizesHaveTheirRam == [][phase = "vmInit" => exit' # Undefined]_mainVars

(* A line of the listing shows a line of code and its word w: the opcode,  *)
(* the address of the constant or label named; if it has but registers and *)
(* immediates, it is assembled to the same word when it is typed in again. *)
Shows(shown, line, w) ==
  /\ opcodeFromString(shown.name) = line.op
  /\ Writable(shown) => Encode(LineShown(shown), <<>>, <<>>) = w
  /\ line.op \in LDCI .. LDCA /\ line.args[2].kind = "const" =>
       Last(shown.args).n = addresses[FirstIndex(line.args[2].name, constants)]
  /\ Jumps(line) /\ line.args[1].kind = "label" =>
       Last(shown.args).n = labels[FirstIndex(line.args[1].name, labels)].address

(* The listing disassemble prints shows the program: its k-th line the     *)
(* line of code with k - 1 others above it.                                *)
ListingShowsProgram ==
  \A k \in DOMAIN listing : \E c \in Codes :
    LinesAbove(source, "code", c) = k - 1 /\ Shows(listing[k], source[c], code.instrs[k])

-----------------------------------------------------------------------------
(* The example programs print what they are documented to: every phase of  *)
(* the program has a part in it.                                           *)
PrintsWhatItShould ==
  phase = "over" /\ (exit = 0 \/ stage # "parse") /\ filename \in DOMAIN Expected =>
    out = Expected[filename]

(* Until the machine runs, main goes through its phases in their order,    *)
(* and in each of them a number of turns falls that the command line, the  *)
(* file or the program sets at its beginning.                              *)
PhaseNumber == [options |-> 0, readFile |-> 1, vmInit |-> 2, compile |-> 3,
                disassemble |-> 4, execute |-> 5, over |-> 6, otherRam |-> 6]
PhaseTurnsLeft ==
  CASE phase = "options"     -> Len(argv) + 1 - i
    [] phase = "compile"     -> AsmTurnsLeft
    [] phase = "disassemble" -> Len(code.instrs) - Len(listing)
    [] OTHER                 -> 0
EveryPhaseAdvances ==
  [][\/ PhaseNumber[phase'] > PhaseNumber[phase]
     \/ phase' = phase /\ (phase = "execute" \/ PhaseTurnsLeft' \in 0 .. PhaseTurnsLeft - 1)]_mainVars

(* Every command line leads to an exit, to an execution or to a RAM of     *)
(* another size: the passes of compile and disassemble come to the end of  *)
(* what they walk over.  The executions of the examples end as well, their *)
(* loops and subroutines come to the last line.                            *)
MainEnds == <>(phase \in {"over", "otherRam"} \/ (phase = "execute" /\ filename \notin DOMAIN Expected))
=============================================================================
