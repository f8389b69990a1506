--------------------------------- MODULE Vm ---------------------------------
(***************************************************************************)
(* vmExecute of src/vm.c: a 32 bit register machine with a byte addressed  *)
(* RAM.  One step is one iteration of the fetch loop; an action is a case  *)
(* of its switch, or one for the three flavours the cases come in.         *)
(*                                                                         *)
(* code is the assembled program: instrs (Bytecode.instrs), constants (the *)
(* address table Bytecode.constants) and pool (the bytes parseConstants    *)
(* stored from address 0 on).                                              *)
(***************************************************************************)
EXTENDS Bytecode, SharedRam, Sequences

CONSTANTS
  NumRegs,            \* registers of Cpu32 (12 in the program)
  Programs,           \* the programs a run may start with
  FreshWords,         \* what malloc may leave in a register
  MaxOutput,          \* bound: how many printed items `out' records
  OnOverflow,         \* what the build makes of a signed overflow: "wraps", "traps"
  FloatGt(_, _),      \* >, >= and + of the float a word holds
  FloatGe(_, _),
  FloatAdd(_, _)

SP == 0
PC == 1
R  == 2
H  == 3
Reg == 0 .. NumRegs - 1

Program == [instrs : Seq(Instruction), constants : Seq(Word), pool : Seq(Byte)]

ASSUME NumRegsAssumption == NumRegs \in 4 .. 16
ASSUME ProgramsAssumption == \A p \in Programs : p \in Program /\ Len(p.pool) <= RamSize
ASSUME FreshWordsAssumption == FreshWords \subseteq Word
ASSUME MaxOutputAssumption == MaxOutput \in Nat
ASSUME OverflowAssumption == OnOverflow \subseteq {"wraps", "traps"} /\ OnOverflow # {}
ASSUME FloatAssumption == \A x, y \in Word : FloatAdd(x, y) \in Word

VARIABLES code,    \* the program, never changed
          regs,    \* the register file, each register as an unsigned word
          pc,      \* the C variable pc, as an index into code.instrs
          status,  \* running, or how the process ended
          out      \* what was printed, the first MaxOutput items

vars == <<code, regs, ram, pc, status, out>>

Statuses == {"running", "exited", "access_violation", "unknown_opcode", "overflow", "undefined"}

-----------------------------------------------------------------------------
(* vmInit and compile: only $sp and $h are given values, the rest of the   *)
(* Cpu32 and of the RAM is what malloc returned.                           *)
Init ==
  /\ code \in Programs
  /\ \E fresh \in [Reg -> FreshWords] :
       regs = [fresh EXCEPT ![SP] = RamSize - 1, ![H] = Len(code.pool)]
  /\ \E fresh \in [Cell -> FreshBytes] :
       ram = [c \in Cell |-> IF c < Len(code.pool) THEN code.pool[c + 1] ELSE fresh[c]]
  /\ pc = 0
  /\ status = "running"
  /\ out = <<>>

-----------------------------------------------------------------------------
(* The instruction of this iteration, and the registers as its case sees   *)
(* them: cpu->pc is set before the switch.                                 *)
instr == code.instrs[pc + 1]
cpu   == [regs EXCEPT ![PC] = pc % WordSize]

Executes(op) == status = "running" /\ pc < Len(code.instrs) /\ OPCODE(instr) = op

Size == [I |-> 4, F |-> 4, B |-> 1]

(* Where an operand lives.  Wild is an index outside Cpu32.regs or outside *)
(* code->constants: the C code has no check there.                         *)
InReg(r)   == [kind |-> "reg", at |-> r]
InRam(a)   == [kind |-> "ram", at |-> a]
Literal(v) == [kind |-> "imm", at |-> v]
Wild       == [kind |-> "wild", at |-> 0]

Indirect(isAddr, r, c) ==
  IF r \notin Reg THEN Wild ELSE IF isAddr THEN InRam(c[r]) ELSE InReg(r)

InPool(index) ==
  IF index + 1 \in DOMAIN code.constants THEN InRam(code.constants[index + 1]) ELSE Wild

Arg1 == Indirect(IS_ARG1_ADDR(instr), ARG1_VALUE(instr), cpu)

(* POP and DUP: the register index is in the second argument, the address  *)
(* flag still in the first; c is the register file after $sp moved.        *)
ArgPop(c) == Indirect(IS_ARG1_ADDR(instr), ARG2_VALUE(instr), c)

(* getArg2Float has no immediate mode.                                     *)
Arg2(t) ==
  IF IS_ARG2_REG(instr) THEN Indirect(IS_ARG2_ADDR(instr), ARG2_VALUE(instr), cpu)
  ELSE IF IS_ARG2_IMM(instr) /\ t # "F" THEN Literal(ARG2_VALUE(instr))
  ELSE InPool(ARG2_VALUE(instr))

(* GET_CONST_*: the register flag is not looked at.                        *)
ArgConst(t) ==
  IF IS_ARG2_IMM(instr) /\ t # "F" THEN Literal(ARG2_VALUE(instr))
  ELSE InPool(ARG2_VALUE(instr))

-----------------------------------------------------------------------------
(* Reading and writing an operand as flavour t.  A byte access to a        *)
(* register is an access to the low byte of the union.                     *)
Truncate(t, n) == n % (IF t = "B" THEN ByteSize ELSE WordSize)

Load(t, loc) ==
  IF loc.kind = "ram"
  THEN IF t = "B" THEN ReadInt8(ram, loc.at) ELSE ReadInt32(ram, loc.at)
  ELSE Truncate(t, IF loc.kind = "reg" THEN cpu[loc.at] ELSE loc.at)

(* Mutants: the address taken for the end of the value, and a word stored  *)
(* for every flavour.                                                      *)
StoreRamBelow(t, mem, address, v) ==
  StoreBytes(mem, address - Size[t], IF t = "B" THEN <<v>> ELSE WordBytes(v))
StoreRamAsWord(t, mem, address, v) == StoreInt32(mem, address, v)

StoreRam(t, mem, address, v) ==
  IF t = "B" THEN StoreInt8(mem, address, v) ELSE StoreInt32(mem, address, v)

(* The machine after v was written to loc, a cell or a register.           *)
WordReplaced(word, byte) == byte    \* mutant: the union is cleared first
LowByteReplaced(word, byte) == (word - (word % ByteSize)) + byte

Written(t, loc, v, m) ==
  IF loc.kind = "ram" THEN [m EXCEPT !.ram = StoreRam(t, m.ram, loc.at, v)]
  ELSE [m EXCEPT !.regs = [m.regs EXCEPT ![loc.at] =
          IF t = "B" THEN LowByteReplaced(m.regs[loc.at], v) ELSE v]]

(* What becomes of an access: undefined is one that leaves an allocation.  *)
Access(t, loc) ==
  IF loc.kind = "wild" THEN "undefined"
  ELSE IF loc.kind # "ram" THEN "running"
  ELSE IF ~ CHECK_RANGE(loc.at, Size[t]) THEN "access_violation"
  ELSE IF InAllocation(loc.at, Size[t]) THEN "running"
  ELSE "undefined"

Machine == [regs |-> cpu, ram |-> ram]

(* The accesses of an instruction in the order the code makes them.  The   *)
(* first one that fails ends the process; if none does, the machine        *)
(* becomes m, the next instruction is at target and `printed' was printed. *)
Perform(t, accesses, m, target, printed) ==
  LET failing == {k \in DOMAIN accesses : Access(t, accesses[k]) # "running"}
  IN  /\ IF failing = {}
         THEN /\ regs' = m.regs
              /\ ram' = m.ram
              /\ pc' = target
              /\ out' = IF Len(out) < MaxOutput THEN out \o printed ELSE out
              /\ UNCHANGED status
         ELSE /\ \E k \in failing : /\ \A j \in failing : k <= j
                                    /\ status' = Access(t, accesses[k])
              /\ UNCHANGED <<regs, ram, pc, out>>
      /\ UNCHANGED code

Goto(c, target) == Perform("I", <<>>, [Machine EXCEPT !.regs = c], target, <<>>)

-----------------------------------------------------------------------------
(* Control flow.                                                           *)
(* Mutants: CALL saves its own address; RET goes to the word on top of the *)
(* stack, as the comment in bytecode.h has it.                             *)
CallSavingItself == Executes(CALL) /\ Goto([cpu EXCEPT ![R] = pc % WordSize], ARG_JMP_VALUE(instr))
RetToTopOfStack ==
  LET top == InRam(cpu[SP])
  IN  Executes(RET) /\ Perform("I", <<top>>, Machine, Load("I", top), <<>>)

Noop == Executes(NOOP) /\ Goto(cpu, pc + 1)
Jmp  == Executes(JMP)  /\ Goto(cpu, ARG_JMP_VALUE(instr))
Call == Executes(CALL) /\ Goto([cpu EXCEPT ![R] = (pc + 1) % WordSize], ARG_JMP_VALUE(instr))
Ret  == Executes(RET)  /\ Goto(cpu, cpu[R])

Greater(t, x, y) ==
  CASE t = "I" -> SignedWord(x) > SignedWord(y)
    [] t = "B" -> SignedByte(x) > SignedByte(y)
    [] t = "F" -> FloatGt(x, y)

GreaterEqual(t, x, y) ==
  CASE t = "I" -> SignedWord(x) >= SignedWord(y)
    [] t = "B" -> SignedByte(x) >= SignedByte(y)
    [] t = "F" -> FloatGe(x, y)

If(t) ==
  /\ Executes(IFI + Flavour[t])
  /\ Perform(t, <<Arg2(t), Arg1>>, Machine,
             IF Greater(t, Load(t, Arg1), Load(t, Arg2(t))) THEN pc + 2 ELSE pc + 1, <<>>)

Ife(t) ==
  /\ Executes(IFEI + Flavour[t])
  /\ Perform(t, <<Arg2(t), Arg1>>, Machine,
             IF GreaterEqual(t, Load(t, Arg1), Load(t, Arg2(t))) THEN pc + 2 ELSE pc + 1, <<>>)

-----------------------------------------------------------------------------
(* Moves between registers, constants and memory.                          *)
Mov(t) ==
  /\ Executes(MOVI + Flavour[t])
  /\ Perform(t, <<Arg2(t), Arg1>>, Written(t, Arg1, Load(t, Arg2(t)), Machine), pc + 1, <<>>)

Ldc(t) ==
  /\ Executes(LDCI + Flavour[t])
  /\ Perform(t, <<ArgConst(t), Arg1>>,
             Written(t, Arg1, Load(t, ArgConst(t)), Machine), pc + 1, <<>>)

(* The address itself is loaded, the pool is not read.                     *)
Ldca ==
  LET entry == InPool(ARG2_VALUE(instr))
  IN  /\ Executes(LDCA)
      /\ Perform("I", <<IF entry = Wild THEN Wild ELSE Literal(entry.at), Arg1>>,
                 Written("I", Arg1, entry.at, Machine), pc + 1, <<>>)

-----------------------------------------------------------------------------
(* The stack: $sp moves by the size of the flavour, modulo 2^32.           *)
MovedUnwrapped(delta) == [cpu EXCEPT ![SP] = @ + delta]    \* mutant: a wider $sp
Moved(delta) == [cpu EXCEPT ![SP] = (@ + delta) % WordSize]

Push(t) ==
  LET top == Moved(- Size[t])
  IN  /\ Executes(PUSHI + Flavour[t])
      /\ Perform(t, <<Arg2(t), InRam(top[SP])>>,
                 Written(t, InRam(top[SP]), Load(t, Arg2(t)), [regs |-> top, ram |-> ram]),
                 pc + 1, <<>>)

(* Mutant: the value is read after $sp moved.                              *)
PopAfterMove(t) ==
  LET top == Moved(Size[t])
  IN  /\ Executes(POPI + Flavour[t])
      /\ Perform(t, <<InRam(top[SP]), ArgPop(top)>>,
                 Written(t, ArgPop(top), Load(t, InRam(top[SP])), [regs |-> top, ram |-> ram]),
                 pc + 1, <<>>)

Pop(t) ==
  LET top == Moved(Size[t])
  IN  /\ Executes(POPI + Flavour[t])
      /\ Perform(t, <<InRam(cpu[SP]), ArgPop(top)>>,
                 Written(t, ArgPop(top), Load(t, InRam(cpu[SP])), [regs |-> top, ram |-> ram]),
                 pc + 1, <<>>)

Dup(t) ==
  LET top  == Moved(- Size[t])
      v    == Load(t, InRam(cpu[SP]))
      copy == Written(t, InRam(top[SP]), v, [regs |-> top, ram |-> ram])
  IN  /\ Executes(DUPI + Flavour[t])
      /\ Perform(t, <<InRam(cpu[SP]), InRam(top[SP]), ArgPop(top)>>,
                 Written(t, ArgPop(top), v, copy), pc + 1, <<>>)

-----------------------------------------------------------------------------
(* Output and the two ALU cases an instruction word can select: ADDI and   *)
(* ADDF.  OPCODE is never above 31, see OpcodeRange in VmProofs.           *)
Printed == [as : Flavours \cup {"C"}, value : Int]

Shown(t, v) == IF t = "I" THEN SignedWord(v) ELSE IF t = "B" THEN SignedByte(v) ELSE v

PrintNumber(t) ==
  /\ Executes(PRINTI + Flavour[t])
  /\ Perform(t, <<Arg2(t)>>, Machine, pc + 1,
             <<[as |-> t, value |-> Shown(t, Load(t, Arg2(t)))]>>)

PrintC ==
  /\ Executes(PRINTC)
  /\ Perform("B", <<Arg2("B")>>, Machine, pc + 1,
             <<[as |-> "C", value |-> Shown("B", Load("B", Arg2("B")))]>>)

(* An int32_t holds n: if not, C leaves the operation undefined, and the   *)
(* build of build.bat wraps around.                                        *)
FitsInt(n) == SignedWord(n % WordSize) = n

Sum(t, x, y) == IF t = "F" THEN FloatAdd(x, y) ELSE Truncate(t, x + y)

AddOverflows ==
  /\ \A loc \in {Arg1, Arg2("I")} : Access("I", loc) = "running"
  /\ ~ FitsInt(SignedWord(Load("I", Arg1)) + SignedWord(Load("I", Arg2("I"))))

AddTraps ==
  /\ Executes(ADDI)
  /\ AddOverflows /\ "traps" \in OnOverflow
  /\ status' = "overflow"
  /\ UNCHANGED <<code, regs, ram, pc, out>>

Add(t) ==
  /\ Executes(ADDI + Flavour[t])
  /\ t = "I" /\ AddOverflows => "wraps" \in OnOverflow
  /\ Perform(t, <<Arg1, Arg2(t), Arg1>>,
             Written(t, Arg1, Sum(t, Load(t, Arg1), Load(t, Arg2(t))), Machine), pc + 1, <<>>)

-----------------------------------------------------------------------------
(* The default case, and the end of the loop.                              *)
UnknownOpcode ==
  /\ status = "running" /\ pc < Len(code.instrs)
  /\ OPCODE(instr) \notin NOOP .. MAX_OPCODES - 1
  /\ status' = "unknown_opcode"
  /\ UNCHANGED <<code, regs, ram, pc, out>>

Halt ==
  /\ status = "running" /\ pc >= Len(code.instrs)
  /\ status' = "exited"
  /\ UNCHANGED <<code, regs, ram, pc, out>>

(* The process is gone: nothing happens any more.                          *)
Ended == status # "running" /\ UNCHANGED vars

Step ==
  \/ Noop \/ Jmp \/ Call \/ Ret
  \/ \E t \in Flavours : If(t) \/ Ife(t) \/ Mov(t) \/ Ldc(t) \/ Push(t) \/ Pop(t) \/ Dup(t) \/ PrintNumber(t)
  \/ Ldca \/ PrintC
  \/ \E t \in {"I", "F"} : Add(t)
  \/ AddTraps \/ UnknownOpcode \/ Halt

Next == Step \/ Ended

Spec == Init /\ [][Next]_vars

-----------------------------------------------------------------------------
(* Type invariant: what the variables hold in every state.                 *)
TypeOK ==
  /\ code \in Program
  /\ regs \in [Reg -> Word]
  /\ ram \in [Cell -> Byte]
  /\ pc \in Nat
  /\ status \in Statuses
  /\ out \in Seq(Printed)

-----------------------------------------------------------------------------
(* The operands the README's instruction table allows: registers of the    *)
(* Cpu32, constants that exist, no immediate where a float is read.        *)
ReadsConstant(i) == OPCODE(i) \in LDCI .. LDCA
PopsOrDups(i)    == OPCODE(i) \in POPI .. DUPI + 2
HasArg2(i)       == OPCODE(i) \notin {NOOP, JMP, CALL, RET} \cup (POPI .. DUPI + 2)
HasArg1(i)       == OPCODE(i) \in MOVI .. LDCA \cup (IFI .. IFEI + 2) \cup (ADDI .. ADDI + 1)
TakesImmediate(i) ==
  OPCODE(i) \notin {MOVI + 1, LDCI + 1, LDCA, PUSHI + 1, IFI + 1, IFEI + 1, PRINTI + 1, ADDI + 1}

WellFormedInstr(i, constants) ==
  /\ HasArg1(i) => ARG1_VALUE(i) \in Reg
  /\ PopsOrDups(i) => ARG2_VALUE(i) \in Reg
  /\ HasArg2(i) =>
       \/ ~ ReadsConstant(i) /\ IS_ARG2_REG(i) /\ ARG2_VALUE(i) \in Reg
       \/ (ReadsConstant(i) \/ ~ IS_ARG2_REG(i)) /\ IS_ARG2_IMM(i) /\ TakesImmediate(i)
       \/ (ReadsConstant(i) \/ ~ IS_ARG2_REG(i)) /\ ARG2_VALUE(i) + 1 \in DOMAIN constants

WellFormed(p) == \A k \in DOMAIN p.instrs : WellFormedInstr(p.instrs[k], p.constants)

(* A program whose operands are well formed never makes the C code leave   *)
(* an allocation, whatever addresses it computes, wherever it jumps and    *)
(* whatever malloc left in its registers: a bad address ends in the access *)
(* violation of CHECK_RANGE, a stray jump past the end ends the loop.      *)
MemorySafety == WellFormed(code) => status # "undefined"

(* The registers an instruction writes other than by moving the stack.     *)
WritesArg1(i) == OPCODE(i) \in MOVI .. LDCA \cup (ADDI .. ADDI + 1)
NamesDest(i, r) ==
  \/ WritesArg1(i) /\ ARG1_VALUE(i) = r /\ ~ IS_ARG1_ADDR(i)
  \/ PopsOrDups(i) /\ ARG2_VALUE(i) = r /\ ~ IS_ARG1_ADDR(i)
StoresToRam(i) == (WritesArg1(i) \/ PopsOrDups(i)) /\ IS_ARG1_ADDR(i)

LeavesSpAlone(p) == \A k \in DOMAIN p.instrs : ~ NamesDest(p.instrs[k], SP)
StoresOnlyByPush(p) ==
  LeavesSpAlone(p) /\ \A k \in DOMAIN p.instrs : ~ StoresToRam(p.instrs[k])

(* While a program only pushes, pops and duplicates, in any mixture of     *)
(* sizes, $sp stays inside the RAM: it neither wraps below address 0 nor   *)
(* rises above the top it was given by vmInit.                             *)
StackPointerInRam == LeavesSpAlone(code) => regs[SP] < RamSize

(* The constants parseConstants laid out keep their bytes until the stack  *)
(* has grown down into them: nothing but a push below $h's initial value   *)
(* changes them in a program that stores only by pushing.                  *)
PoolChanged == \E c \in 0 .. Len(code.pool) - 1 : ram'[c] # ram[c]
PoolOutlivesStack ==
  [][StoresOnlyByPush(code) /\ PoolChanged => regs'[SP] < Len(code.pool)]_vars

(* An 8 bit instruction disturbs one byte of the machine besides $sp and   *)
(* $pc, and two when a DUPB or PUSHB also stores: the neighbours of the    *)
(* byte, in RAM or in the register's union, keep their value.              *)
ByteOpcodes == {f + Flavour["B"] : f \in {MOVI, LDCI, PUSHI, POPI, DUPI}}
ByteWritesAreNarrow ==
  [][status = "running" /\ pc < Len(code.instrs) /\ OPCODE(instr) \in ByteOpcodes =>
       /\ \A r \in Reg \ {SP, PC} : regs'[r] \div ByteSize = regs[r] \div ByteSize
       /\ \A c, d \in Cell : ram'[c] # ram[c] /\ ram'[d] # ram[d] =>
            c = d \/ OPCODE(instr) = DUPI + Flavour["B"]]_vars
=============================================================================
