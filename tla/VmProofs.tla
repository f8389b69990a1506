------------------------------ MODULE VmProofs ------------------------------
(***************************************************************************)
(* Theorems about the machine of Vm, for every size of byte, of RAM and of *)
(* register file, every set of programs and whatever malloc leaves.        *)
(***************************************************************************)
EXTENDS Vm, RamProofs

-----------------------------------------------------------------------------
(* The macros of bytecode.h.                                               *)

(* No instruction word has an opcode above 31: the shift keeps the sign,   *)
(* so the cases ADDB .. SLLB of the switch are never selected.             *)
THEOREM OpcodeRange == \A i \in Instruction : OPCODE(i) \in -32 .. 31
BY SMT DEF Instruction, OPCODE, OPCODE_SHIFT

LEMMA FieldTypes ==
  ASSUME NEW i \in Instruction
  PROVE  /\ OPCODE(i) \in Int
         /\ ARG1_VALUE(i) \in Nat
         /\ ARG2_VALUE(i) \in Nat
         /\ ARG_JMP_VALUE(i) \in Nat
BY SMT DEF Instruction, OPCODE, OPCODE_SHIFT, ARG1_VALUE, ARG1_SHIFT, ARG1_ADDR_MASK,
       ARG2_VALUE, ARG2_IMM_MASK, ARG_JMP_VALUE, JMP_LIMIT

-----------------------------------------------------------------------------
(* Operands.                                                               *)
Location ==
  [kind : {"reg"}, at : Reg] \cup [kind : {"ram"}, at : Word]
    \cup [kind : {"imm"}, at : Nat] \cup [kind : {"wild"}, at : {0}]

Value(t) == IF t = "B" THEN Byte ELSE Word

Registers == [Reg -> Word]
Memory    == [Cell -> Byte]

LEMMA ByteIsWord == Byte \subseteq Word
<1>1. ByteSize * ByteSize >= 1 /\ ByteSize * ByteSize \in Nat
  BY ByteSizeType
<1>2. ByteSize * (ByteSize * ByteSize) >= 1 /\ ByteSize * (ByteSize * ByteSize) \in Nat
  BY <1>1, ByteSizeType
<1>3. WordSize >= ByteSize
  <2> DEFINE cube == ByteSize * (ByteSize * ByteSize)
  <2>1. ByteSize * cube >= ByteSize
    <3> HIDE DEF cube
    <3>. QED  BY <1>2, ByteSizeType DEF cube
  <2>. QED  BY <2>1 DEF WordSize
<1>. QED
  BY <1>3, ByteSizeType, WordSizeType DEF Byte, Word

LEMMA InstrType ==
  ASSUME TypeOK, pc < Len(code.instrs)
  PROVE  instr \in Instruction
BY DEF TypeOK, Program, instr

LEMMA CpuType == TypeOK => cpu \in Registers
<1> SUFFICES ASSUME TypeOK PROVE cpu \in Registers
  OBVIOUS
<1>1. pc % WordSize \in Word
  BY RemainderType DEF TypeOK
<1>. QED
  BY <1>1 DEF TypeOK, cpu, Registers

LEMMA IndirectType ==
  ASSUME NEW c \in Registers, NEW r \in Nat, NEW isAddr \in BOOLEAN
  PROVE  /\ Indirect(isAddr, r, c) \in Location
         /\ Indirect(isAddr, r, c).kind # "imm"
<1>1. CASE r \notin Reg
  BY <1>1 DEF Indirect, Location, Wild
<1>2. CASE r \in Reg /\ isAddr
  BY <1>2 DEF Indirect, Location, Registers, InRam
<1>3. CASE r \in Reg /\ ~ isAddr
  BY <1>3 DEF Indirect, Location, Registers, InReg
<1>. QED
  BY <1>1, <1>2, <1>3

LEMMA InPoolType ==
  ASSUME TypeOK, NEW index \in Nat
  PROVE  InPool(index) \in Location /\ InPool(index).at \in Word
<1>1. code.constants \in Seq(Word)
  BY DEF TypeOK, Program
<1>2. CASE index + 1 \in DOMAIN code.constants
  <2>1. code.constants[index + 1] \in Word
    BY <1>1, <1>2
  <2>. QED  BY <1>2, <2>1 DEF InPool, InRam, Location
<1>3. CASE index + 1 \notin DOMAIN code.constants
  BY <1>3, WordSizeType DEF InPool, Wild, Location, Word
<1>. QED
  BY <1>2, <1>3

LEMMA FlagTypes ==
  ASSUME NEW i
  PROVE  /\ IS_ARG1_ADDR(i) \in BOOLEAN /\ IS_ARG2_ADDR(i) \in BOOLEAN
BY DEF IS_ARG1_ADDR, IS_ARG2_ADDR

LEMMA OperandTypes ==
  ASSUME TypeOK, pc < Len(code.instrs), NEW t \in Flavours
  PROVE  /\ Arg1 \in Location /\ Arg1.kind # "imm"
         /\ Arg2(t) \in Location
         /\ ArgConst(t) \in Location
         /\ \A c \in Registers : ArgPop(c) \in Location /\ ArgPop(c).kind # "imm"
<1>1. /\ ARG1_VALUE(instr) \in Nat
      /\ ARG2_VALUE(instr) \in Nat
  BY InstrType, FieldTypes
<1>2. /\ Arg1 \in Location /\ Arg1.kind # "imm"
      /\ \A c \in Registers : ArgPop(c) \in Location /\ ArgPop(c).kind # "imm"
  BY <1>1, CpuType, IndirectType, FlagTypes DEF Arg1, ArgPop
<1>3. /\ Literal(ARG2_VALUE(instr)) \in Location
      /\ InPool(ARG2_VALUE(instr)) \in Location
  BY <1>1, InPoolType DEF Literal, Location
<1>4. Indirect(IS_ARG2_ADDR(instr), ARG2_VALUE(instr), cpu) \in Location
  BY <1>1, CpuType, IndirectType, FlagTypes
<1>. QED
  BY <1>2, <1>3, <1>4 DEF Arg2, ArgConst

(* An access that is let through stays in the allocation.                  *)
LEMMA AllowedAccess ==
  ASSUME NEW t \in Flavours, NEW loc \in Location, Access(t, loc) = "running"
  PROVE  /\ loc.kind # "wild"
         /\ loc.kind = "ram" => InAllocation(loc.at, Size[t])
BY DEF Access, Location

LEMMA SizeType == \A t \in Flavours : Size[t] = IF t = "B" THEN 1 ELSE 4
BY DEF Flavours, Size

LEMMA LoadType ==
  ASSUME TypeOK, NEW t \in Flavours, NEW loc \in Location, Access(t, loc) = "running"
  PROVE  Load(t, loc) \in Value(t)
<1>1. CASE loc.kind = "ram"
  <2>1. InAllocation(loc.at, Size[t]) /\ loc.at \in Nat
    BY <1>1, AllowedAccess, WordSizeType DEF Location, Word
  <2>2. CASE t = "B"
    <3>1. loc.at \in Cell
      BY <2>1, <2>2, SizeType, RamSizeAssumption DEF InAllocation, Cell
    <3>. QED  BY <1>1, <2>2, <3>1 DEF Load, Value, ReadInt8, TypeOK
  <2>3. CASE t # "B"
    BY <1>1, <2>1, <2>3, SizeType, ReadInt32Type DEF Load, Value, TypeOK
  <2>. QED  BY <2>2, <2>3
<1>2. CASE loc.kind # "ram"
  <2>1. (IF loc.kind = "reg" THEN cpu[loc.at] ELSE loc.at) \in Int
    BY <1>2, CpuType, WordSizeType DEF Location, Registers, Word
  <2>. QED  BY <1>2, <2>1, RemainderType DEF Load, Truncate, Value
<1>. QED
  BY <1>1, <1>2

MachineType == [regs : Registers, ram : Memory]

LEMMA MachineIsTyped == TypeOK => Machine \in MachineType
BY CpuType DEF TypeOK, Machine, MachineType, Registers, Memory

LEMMA WrittenType ==
  ASSUME NEW t \in Flavours, NEW loc \in Location, Access(t, loc) = "running",
         loc.kind # "imm", NEW v \in Value(t), NEW m \in MachineType
  PROVE  Written(t, loc, v, m) \in MachineType
<1>1. CASE loc.kind = "ram"
  <2>1. StoreRam(t, m.ram, loc.at, v) \in Memory
    BY <1>1, StoreType, WordSizeType
       DEF StoreRam, Memory, MachineType, Value, Location, Word
  <2>. QED  BY <1>1, <2>1 DEF Written, MachineType
<1>2. CASE loc.kind = "reg"
  <2>1. loc.at \in Reg /\ m.regs \in Registers
    BY <1>2 DEF Location, MachineType
  <2>2. CASE t = "B"
    <3>1. LowByteReplaced(m.regs[loc.at], v) \in Word
      BY <2>1, <2>2, LowByteType DEF Registers, Value, LowByteReplaced
    <3>. QED  BY <1>2, <2>1, <2>2, <3>1 DEF Written, MachineType, Registers
  <2>3. CASE t # "B"
    BY <1>2, <2>1, <2>3 DEF Written, MachineType, Registers, Value
  <2>. QED  BY <2>2, <2>3
<1>. QED
  BY <1>1, <1>2, AllowedAccess DEF Location

LEMMA MovedType ==
  ASSUME TypeOK, NEW delta \in Int
  PROVE  Moved(delta) \in Registers /\ Moved(delta)[SP] \in Word
<1>1. SP \in Reg
  BY NumRegsAssumption DEF SP, Reg
<1>2. (cpu[SP] + delta) % WordSize \in Word
  BY <1>1, CpuType, WordSizeType, RemainderType DEF Registers, Word
<1>. QED
  BY <1>1, <1>2, CpuType DEF Moved, Registers

LEMMA StackCells ==
  ASSUME TypeOK
  PROVE  /\ InRam(cpu[SP]) \in Location
         /\ \A delta \in Int : InRam(Moved(delta)[SP]) \in Location
<1>1. SP \in Reg
  BY NumRegsAssumption DEF SP, Reg
<1>. QED
  BY <1>1, CpuType, MovedType DEF InRam, Location, Registers

-----------------------------------------------------------------------------
(* What a step of the machine can be: the instruction is carried out as a  *)
(* whole, or one of its accesses ends the process and nothing else.        *)
LEMMA PerformCases ==
  ASSUME NEW t, NEW accesses, NEW m, NEW target, NEW printed,
         Perform(t, accesses, m, target, printed)
  PROVE  /\ code' = code
         /\ \/ /\ \A k \in DOMAIN accesses : Access(t, accesses[k]) = "running"
               /\ regs' = m.regs /\ ram' = m.ram /\ pc' = target /\ status' = status
               /\ out' = IF Len(out) < MaxOutput THEN out \o printed ELSE out
            \/ /\ \E k \in DOMAIN accesses : /\ Access(t, accesses[k]) # "running"
                                            /\ status' = Access(t, accesses[k])
               /\ regs' = regs /\ ram' = ram /\ pc' = pc /\ out' = out
BY DEF Perform

LEMMA AccessType ==
  ASSUME NEW t, NEW loc
  PROVE  Access(t, loc) \in {"running", "access_violation", "undefined"}
BY DEF Access

LEMMA PerformType ==
  ASSUME TypeOK, NEW t, NEW accesses, NEW m, NEW target, NEW printed,
         Perform(t, accesses, m, target, printed),
         (\A k \in DOMAIN accesses : Access(t, accesses[k]) = "running") =>
            m \in MachineType /\ target \in Nat /\ printed \in Seq(Printed)
  PROVE  TypeOK'
<1>1. CASE \A k \in DOMAIN accesses : Access(t, accesses[k]) = "running"
  <2>1. /\ code' = code /\ regs' = m.regs /\ ram' = m.ram /\ pc' = target
        /\ status' = status /\ out' = IF Len(out) < MaxOutput THEN out \o printed ELSE out
    BY <1>1, PerformCases
  <2>2. m.regs \in Registers /\ m.ram \in Memory /\ target \in Nat
    BY <1>1 DEF MachineType
  <2>3. out' \in Seq(Printed)
    BY <1>1, <2>1 DEF TypeOK
  <2>. QED  BY <2>1, <2>2, <2>3 DEF TypeOK, Registers, Memory
<1>2. CASE \E k \in DOMAIN accesses : Access(t, accesses[k]) # "running"
  BY <1>2, PerformCases, AccessType DEF TypeOK, Statuses
<1>. QED
  BY <1>1, <1>2

LEMMA InitType == Init => TypeOK
<1> SUFFICES ASSUME Init PROVE TypeOK
  OBVIOUS
<1>1. code \in Program /\ Len(code.pool) \in Nat /\ Len(code.pool) <= RamSize
  BY ProgramsAssumption DEF Init, Program
<1>2. regs \in [Reg -> Word]
  <2>1. PICK fresh \in [Reg -> FreshWords] :
          regs = [fresh EXCEPT ![SP] = RamSize - 1, ![H] = Len(code.pool)]
    BY DEF Init
  <2>2. RamSize - 1 \in Word /\ Len(code.pool) \in Word
    BY <1>1, RamSizeAssumption, WordSizeType DEF Word
  <2>3. fresh \in [Reg -> Word]
    BY FreshWordsAssumption, FreshBytesAssumption
  <2>. QED  BY <2>1, <2>2, <2>3
<1>3. ram \in [Cell -> Byte]
  <2>1. PICK fresh \in [Cell -> FreshBytes] :
          ram = [c \in Cell |-> IF c < Len(code.pool) THEN code.pool[c + 1] ELSE fresh[c]]
    BY DEF Init
  <2>2. ASSUME NEW c \in Cell, c < Len(code.pool) PROVE code.pool[c + 1] \in Byte
    <3>1. c + 1 \in 1 .. Len(code.pool) /\ code.pool \in Seq(Byte)
      BY <1>1, <2>2 DEF Cell, Program
    <3>. QED  BY <3>1
  <2>3. \A c \in Cell : fresh[c] \in Byte
    BY FreshWordsAssumption, FreshBytesAssumption
  <2>. QED  BY <2>1, <2>2, <2>3
<1>. QED
  BY <1>1, <1>2, <1>3 DEF Init, TypeOK, Statuses, Printed

-----------------------------------------------------------------------------
(* One lemma per group of cases of the switch.                             *)
LEMMA GotoType ==
  ASSUME TypeOK, NEW c \in Registers, NEW target \in Nat, Goto(c, target)
  PROVE  TypeOK'
<1>1. [Machine EXCEPT !.regs = c] \in MachineType
  BY MachineIsTyped DEF MachineType
<1>2. <<>> \in Seq(Printed)
  OBVIOUS
<1>. QED
  BY <1>1, <1>2, PerformType DEF Goto

LEMMA ControlType ==
  ASSUME TypeOK, Noop \/ Jmp \/ Call \/ Ret
  PROVE  TypeOK'
<1>1. cpu \in Registers /\ pc + 1 \in Nat
  BY CpuType DEF TypeOK
<1>2. CASE Noop
  BY <1>1, <1>2, GotoType DEF Noop
<1>3. CASE Jmp
  BY <1>1, <1>3, GotoType, InstrType, FieldTypes DEF Jmp, Executes
<1>4. CASE Call
  <2>1. (pc + 1) % WordSize \in Word
    BY <1>1, RemainderType
  <2>2. [cpu EXCEPT ![R] = (pc + 1) % WordSize] \in Registers
    BY <1>1, <2>1 DEF Registers
  <2>. QED  BY <1>4, <2>2, GotoType, InstrType, FieldTypes DEF Call, Executes
<1>5. CASE Ret
  <2>1. cpu[R] \in Nat
    BY <1>1, NumRegsAssumption, WordSizeType DEF Registers, R, Reg, Word
  <2>. QED  BY <1>1, <1>5, <2>1, GotoType DEF Ret
<1>. QED
  BY <1>2, <1>3, <1>4, <1>5

LEMMA BranchType ==
  ASSUME TypeOK, NEW t \in Flavours, If(t) \/ Ife(t)
  PROVE  TypeOK'
<1>1. <<>> \in Seq(Printed) /\ pc + 1 \in Nat /\ pc + 2 \in Nat
  BY DEF TypeOK
<1>2. CASE If(t)
  BY <1>1, <1>2, MachineIsTyped, PerformType DEF If
<1>3. CASE Ife(t)
  BY <1>1, <1>3, MachineIsTyped, PerformType DEF Ife
<1>. QED
  BY <1>2, <1>3

(* An operand or a constant is read and the first argument is written.     *)
LEMMA TransferType ==
  ASSUME TypeOK, NEW t \in Flavours, NEW from \in Location, NEW to \in Location,
         to.kind # "imm",
         Perform(t, <<from, to>>, Written(t, to, Load(t, from), Machine), pc + 1, <<>>)
  PROVE  TypeOK'
<1>1. <<>> \in Seq(Printed) /\ pc + 1 \in Nat
  BY DEF TypeOK
<1>2. ASSUME \A k \in DOMAIN <<from, to>> : Access(t, <<from, to>>[k]) = "running"
      PROVE  Written(t, to, Load(t, from), Machine) \in MachineType
  <2>1. Access(t, from) = "running" /\ Access(t, to) = "running"
    BY <1>2
  <2>. QED  BY <2>1, LoadType, WrittenType, MachineIsTyped
<1>. QED
  BY <1>1, <1>2, PerformType

LEMMA MoveType ==
  ASSUME TypeOK, NEW t \in Flavours, Mov(t) \/ Ldc(t)
  PROVE  TypeOK'
<1>1. pc < Len(code.instrs)
  BY DEF Mov, Ldc, Executes
<1>2. CASE Mov(t)
  BY <1>1, <1>2, OperandTypes, TransferType DEF Mov
<1>3. CASE Ldc(t)
  BY <1>1, <1>3, OperandTypes, TransferType DEF Ldc
<1>. QED
  BY <1>2, <1>3

LEMMA LdcaType == TypeOK /\ Ldca => TypeOK'
<1> SUFFICES ASSUME TypeOK, Ldca PROVE TypeOK'
  OBVIOUS
<1> DEFINE entry == InPool(ARG2_VALUE(instr))
           address == IF entry = Wild THEN Wild ELSE Literal(entry.at)
<1>1. pc < Len(code.instrs) /\ pc + 1 \in Nat /\ <<>> \in Seq(Printed)
  BY DEF Ldca, Executes, TypeOK
<1>2. Arg1 \in Location /\ Arg1.kind # "imm"
  BY <1>1, OperandTypes DEF Flavours
<1>3. entry.at \in Word
  BY <1>1, InstrType, FieldTypes, InPoolType
<1>4. ASSUME \A k \in DOMAIN <<address, Arg1>> : Access("I", <<address, Arg1>>[k]) = "running"
      PROVE  Written("I", Arg1, entry.at, Machine) \in MachineType
  <2>1. Access("I", Arg1) = "running"
    BY <1>4
  <2>2. entry.at \in Value("I")
    BY <1>3 DEF Value
  <2>. QED  BY <2>1, <2>2, <1>2, WrittenType, MachineIsTyped DEF Flavours
<1>. QED
  <2>1. Perform("I", <<address, Arg1>>, Written("I", Arg1, entry.at, Machine), pc + 1, <<>>)
    BY DEF Ldca
  <2> HIDE DEF entry, address
  <2>. QED  BY <1>1, <1>4, <2>1, PerformType

LEMMA PushType ==
  ASSUME TypeOK, NEW t \in Flavours, Push(t)
  PROVE  TypeOK'
<1> DEFINE top  == Moved(- Size[t])
           cell == InRam(top[SP])
           mach == [regs |-> top, ram |-> ram]
           next == Written(t, cell, Load(t, Arg2(t)), mach)
<1>1. pc < Len(code.instrs) /\ pc + 1 \in Nat /\ <<>> \in Seq(Printed)
  BY DEF Push, Executes, TypeOK
<1>2. cell \in Location /\ cell.kind # "imm" /\ mach \in MachineType
  <2>1. - Size[t] \in Int
    BY SizeType
  <2>. QED  BY <2>1, StackCells, MovedType DEF MachineType, TypeOK, Memory, InRam
<1>3. Arg2(t) \in Location
  BY <1>1, OperandTypes
<1>4. Perform(t, <<Arg2(t), cell>>, next, pc + 1, <<>>)
  BY DEF Push
<1>5. ASSUME \A k \in DOMAIN <<Arg2(t), cell>> : Access(t, <<Arg2(t), cell>>[k]) = "running"
      PROVE  next \in MachineType
  <2> HIDE DEF cell, mach
  <2>1. Access(t, Arg2(t)) = "running" /\ Access(t, cell) = "running"
    BY <1>5
  <2>. QED  BY <2>1, <1>2, <1>3, LoadType, WrittenType
<1>. QED
  <2> HIDE DEF cell, next
  <2>. QED  BY <1>1, <1>4, <1>5, PerformType

LEMMA PopType ==
  ASSUME TypeOK, NEW t \in Flavours, Pop(t)
  PROVE  TypeOK'
<1> DEFINE top  == Moved(Size[t])
           cell == InRam(cpu[SP])
           dest == ArgPop(top)
           mach == [regs |-> top, ram |-> ram]
           next == Written(t, dest, Load(t, cell), mach)
<1>1. pc < Len(code.instrs) /\ pc + 1 \in Nat /\ <<>> \in Seq(Printed)
  BY DEF Pop, Executes, TypeOK
<1>2. top \in Registers
  <2>1. Size[t] \in Int
    BY SizeType
  <2>. QED  BY <2>1, MovedType
<1>3. /\ cell \in Location /\ mach \in MachineType
      /\ dest \in Location /\ dest.kind # "imm"
  BY <1>1, <1>2, StackCells, OperandTypes DEF MachineType, TypeOK, Memory
<1>4. Perform(t, <<cell, dest>>, next, pc + 1, <<>>)
  BY DEF Pop
<1>5. ASSUME \A k \in DOMAIN <<cell, dest>> : Access(t, <<cell, dest>>[k]) = "running"
      PROVE  next \in MachineType
  <2> HIDE DEF cell, dest, mach
  <2>1. Access(t, cell) = "running" /\ Access(t, dest) = "running"
    BY <1>5
  <2>. QED  BY <2>1, <1>3, LoadType, WrittenType
<1>. QED
  <2> HIDE DEF cell, dest, next
  <2>. QED  BY <1>1, <1>4, <1>5, PerformType

LEMMA DupType ==
  ASSUME TypeOK, NEW t \in Flavours, Dup(t)
  PROVE  TypeOK'
<1> DEFINE top  == Moved(- Size[t])
           from == InRam(cpu[SP])
           cell == InRam(top[SP])
           dest == ArgPop(top)
           v    == Load(t, from)
           mach == [regs |-> top, ram |-> ram]
           copy == Written(t, cell, v, mach)
           next == Written(t, dest, v, copy)
           all  == <<from, cell, dest>>
<1>1. pc < Len(code.instrs) /\ pc + 1 \in Nat /\ <<>> \in Seq(Printed)
  BY DEF Dup, Executes, TypeOK
<1>2. - Size[t] \in Int /\ top \in Registers
  <2>1. - Size[t] \in Int
    BY SizeType
  <2>. QED  BY <2>1, MovedType
<1>3. /\ from \in Location /\ mach \in MachineType
      /\ cell \in Location /\ cell.kind # "imm"
      /\ dest \in Location /\ dest.kind # "imm"
  BY <1>1, <1>2, StackCells, OperandTypes DEF MachineType, TypeOK, Memory, InRam
<1>4. Perform(t, all, next, pc + 1, <<>>)
  BY DEF Dup
<1>5. ASSUME \A k \in DOMAIN all : Access(t, all[k]) = "running"
      PROVE  next \in MachineType
  <2>1. Access(t, from) = "running" /\ Access(t, cell) = "running" /\ Access(t, dest) = "running"
    <3> HIDE DEF from, cell, dest
    <3>. QED  BY <1>5
  <2> HIDE DEF from, cell, dest, mach
  <2>2. v \in Value(t)
    BY <2>1, <1>3, LoadType
  <2> HIDE DEF v
  <2>3. copy \in MachineType
    BY <2>1, <2>2, <1>3, WrittenType
  <2> HIDE DEF copy
  <2>. QED  BY <2>1, <2>2, <2>3, <1>3, WrittenType
<1>. QED
  <2> HIDE DEF all, next
  <2>. QED  BY <1>1, <1>4, <1>5, PerformType

LEMMA ShownType ==
  ASSUME NEW t \in Flavours, NEW v \in Value(t)
  PROVE  Shown(t, v) \in Int
BY WordSizeType, ByteSizeType
   DEF Shown, Value, Word, Byte, SignedWord, SignedByte, Flavours

LEMMA PrintType ==
  ASSUME TypeOK, (\E t \in Flavours : PrintNumber(t)) \/ PrintC
  PROVE  TypeOK'
<1>1. ASSUME NEW t \in Flavours, NEW as \in Flavours \cup {"C"}, pc < Len(code.instrs),
             Perform(t, <<Arg2(t)>>, Machine, pc + 1,
                     <<[as |-> as, value |-> Shown(t, Load(t, Arg2(t)))]>>)
      PROVE  TypeOK'
  <2>1. Arg2(t) \in Location /\ pc + 1 \in Nat
    BY <1>1, OperandTypes DEF TypeOK
  <2>2. ASSUME \A k \in DOMAIN <<Arg2(t)>> : Access(t, <<Arg2(t)>>[k]) = "running"
        PROVE  <<[as |-> as, value |-> Shown(t, Load(t, Arg2(t)))]>> \in Seq(Printed)
    <3>1. Access(t, Arg2(t)) = "running"
      BY <2>2
    <3>2. Shown(t, Load(t, Arg2(t))) \in Int
      BY <2>1, <3>1, LoadType, ShownType
    <3>3. [as |-> as, value |-> Shown(t, Load(t, Arg2(t)))] \in Printed
      BY <3>2 DEF Printed
    <3>. QED  BY <3>3
  <2>. QED  BY <1>1, <2>1, <2>2, PerformType, MachineIsTyped
<1>2. CASE \E t \in Flavours : PrintNumber(t)
  BY <1>1, <1>2 DEF PrintNumber, Executes
<1>3. CASE PrintC
  BY <1>1, <1>3 DEF PrintC, Executes, Flavours
<1>. QED
  BY <1>2, <1>3

LEMMA AddType ==
  ASSUME TypeOK, NEW t \in {"I", "F"}, Add(t)
  PROVE  TypeOK'
<1> DEFINE x == Load(t, Arg1)
           y == Load(t, Arg2(t))
           all  == <<Arg1, Arg2(t), Arg1>>
           next == Written(t, Arg1, Sum(t, x, y), Machine)
<1>1. pc < Len(code.instrs) /\ pc + 1 \in Nat /\ <<>> \in Seq(Printed) /\ t \in Flavours
  BY DEF Add, Executes, TypeOK, Flavours
<1>2. Arg1 \in Location /\ Arg1.kind # "imm" /\ Arg2(t) \in Location
  BY <1>1, OperandTypes
<1>3. Perform(t, all, next, pc + 1, <<>>)
  BY DEF Add
<1>4. ASSUME \A k \in DOMAIN all : Access(t, all[k]) = "running"
      PROVE  next \in MachineType
  <2>1. Access(t, Arg1) = "running" /\ Access(t, Arg2(t)) = "running"
    BY <1>4
  <2>2. x \in Word /\ y \in Word
    BY <1>1, <1>2, <2>1, LoadType DEF Value
  <2>3. Sum(t, x, y) \in Word
    <3> HIDE DEF x, y
    <3>1. x + y \in Int
      BY <2>2, WordSizeType DEF Word
    <3>. QED  BY <2>2, <3>1, FloatAssumption, RemainderType DEF Sum, Truncate
  <2>4. Sum(t, x, y) \in Value(t)
    BY <2>3 DEF Value
  <2>. QED  BY <1>1, <1>2, <2>1, <2>4, WrittenType, MachineIsTyped
<1>. QED
  <2> HIDE DEF all, next
  <2>. QED  BY <1>1, <1>3, <1>4, PerformType

LEMMA EndType == TypeOK /\ (AddTraps \/ UnknownOpcode \/ Halt \/ Ended \/ UNCHANGED vars) => TypeOK'
BY DEF TypeOK, AddTraps, UnknownOpcode, Halt, Ended, vars, Statuses

LEMMA NextType == TypeOK /\ [Next]_vars => TypeOK'
<1> SUFFICES ASSUME TypeOK, [Next]_vars PROVE TypeOK'
  OBVIOUS
<1>1. CASE Step
  <2>1. CASE Noop \/ Jmp \/ Call \/ Ret
    BY <2>1, ControlType
  <2>2. ASSUME NEW t \in Flavours,
               If(t) \/ Ife(t) \/ Mov(t) \/ Ldc(t) \/ Push(t) \/ Pop(t) \/ Dup(t)
        PROVE  TypeOK'
    BY <2>2, BranchType, MoveType, PushType, PopType, DupType
  <2>3. CASE Ldca
    BY <2>3, LdcaType
  <2>4. CASE (\E t \in Flavours : PrintNumber(t)) \/ PrintC
    BY <2>4, PrintType
  <2>5. CASE \E t \in {"I", "F"} : Add(t)
    BY <2>5, AddType
  <2>6. CASE AddTraps \/ UnknownOpcode \/ Halt
    BY <2>6, EndType
  <2>. QED
    BY <1>1, <2>1, <2>2, <2>3, <2>4, <2>5, <2>6 DEF Step
<1>2. CASE Ended \/ UNCHANGED vars
  BY <1>2, EndType
<1>. QED
  BY <1>1, <1>2 DEF Next

(* Registers hold words, memory cells bytes, and the printed items numbers *)
(* in every state of every run.                                            *)
THEOREM TypeCorrect == Spec => []TypeOK
BY InitType, NextType, PTL DEF Spec

-----------------------------------------------------------------------------
(* Memory safety.  CHECK_RANGE lets only accesses through that stay in the *)
(* RAM, so nothing but a wild operand can leave an allocation, and a well  *)
(* formed instruction has none.                                            *)
LEMMA CheckedAccess ==
  ASSUME NEW t \in Flavours, NEW loc \in Location, loc.kind # "wild"
  PROVE  Access(t, loc) # "undefined"
<1>1. CASE loc.kind = "ram"
  <2>1. loc.at \in Int /\ Size[t] \in Int
    BY <1>1, SizeType, WordSizeType DEF Location, Word
  <2>2. CHECK_RANGE(loc.at, Size[t]) => InAllocation(loc.at, Size[t])
    BY <2>1, RamSizeAssumption DEF CHECK_RANGE, InAllocation
  <2>. QED  BY <2>2 DEF Access
<1>. QED
  BY <1>1 DEF Access

LEMMA PerformSafe ==
  ASSUME NEW t \in Flavours, NEW accesses, NEW m, NEW target, NEW printed,
         Perform(t, accesses, m, target, printed),
         \A k \in DOMAIN accesses : accesses[k] \in Location /\ accesses[k].kind # "wild",
         status # "undefined"
  PROVE  status' # "undefined"
BY PerformCases, CheckedAccess

LEMMA WellFormedOperands ==
  ASSUME TypeOK, WellFormed(code), pc < Len(code.instrs), NEW t \in Flavours,
         t = "F" => ~ TakesImmediate(instr)
  PROVE  /\ HasArg1(instr) => Arg1.kind # "wild"
         /\ PopsOrDups(instr) => \A c \in Registers : ArgPop(c).kind # "wild"
         /\ HasArg2(instr) /\ ~ ReadsConstant(instr) => Arg2(t).kind # "wild"
         /\ HasArg2(instr) /\ ReadsConstant(instr) => ArgConst(t).kind # "wild"
<1>1. WellFormedInstr(instr, code.constants)
  BY DEF WellFormed, TypeOK, Program, instr
<1>2. \A isAddr, r, c : r \in Reg => Indirect(isAddr, r, c).kind # "wild"
  BY DEF Indirect, InRam, InReg
<1>3. \A index : index + 1 \in DOMAIN code.constants => InPool(index).kind # "wild"
  BY DEF InPool, InRam
<1>4. \A v : Literal(v).kind # "wild"
  BY DEF Literal
<1>5. /\ HasArg1(instr) => Arg1.kind # "wild"
      /\ PopsOrDups(instr) => \A c \in Registers : ArgPop(c).kind # "wild"
  BY <1>1, <1>2 DEF WellFormedInstr, Arg1, ArgPop
<1>6. HasArg2(instr) /\ ~ ReadsConstant(instr) => Arg2(t).kind # "wild"
  BY <1>1, <1>2, <1>3, <1>4 DEF WellFormedInstr, Arg2
<1>7. HasArg2(instr) /\ ReadsConstant(instr) => ArgConst(t).kind # "wild"
  BY <1>1, <1>3, <1>4 DEF WellFormedInstr, ArgConst
<1>. QED
  BY <1>5, <1>6, <1>7

(* Which operands the opcode of an action has.                             *)
LEMMA FlavourType ==
  \A t \in Flavours : Flavour[t] = IF t = "I" THEN 0 ELSE IF t = "F" THEN 1 ELSE 2
BY DEF Flavours, Flavour

LEMMA OperandsOfOpcodes ==
  ASSUME NEW t \in Flavours
  PROVE  /\ OPCODE(instr) \in {MOVI + Flavour[t], IFI + Flavour[t], IFEI + Flavour[t]} =>
              /\ HasArg1(instr) /\ HasArg2(instr) /\ ~ ReadsConstant(instr)
              /\ t = "F" => ~ TakesImmediate(instr)
         /\ OPCODE(instr) = LDCI + Flavour[t] =>
              /\ HasArg1(instr) /\ HasArg2(instr) /\ ReadsConstant(instr)
              /\ t = "F" => ~ TakesImmediate(instr)
         /\ OPCODE(instr) \in {PUSHI + Flavour[t], PRINTI + Flavour[t]} =>
              /\ HasArg2(instr) /\ ~ ReadsConstant(instr)
              /\ t = "F" => ~ TakesImmediate(instr)
         /\ OPCODE(instr) \in {POPI + Flavour[t], DUPI + Flavour[t]} => PopsOrDups(instr)
         /\ t # "B" /\ OPCODE(instr) = ADDI + Flavour[t] =>
              /\ HasArg1(instr) /\ HasArg2(instr) /\ ~ ReadsConstant(instr)
              /\ t = "F" => ~ TakesImmediate(instr)
<1>1. Flavour[t] \in 0 .. 2 /\ (t = "F" => Flavour[t] = 1) /\ (t # "B" => Flavour[t] \in 0 .. 1)
  BY FlavourType DEF Flavours
<1>. QED
  BY <1>1 DEF HasArg1, HasArg2, PopsOrDups, ReadsConstant, TakesImmediate,
       NOOP, MOVI, LDCI, LDCA, PUSHI, POPI, DUPI, IFI, IFEI, JMP, PRINTI, CALL, RET, ADDI

LEMMA StepSafe ==
  ASSUME TypeOK, WellFormed(code), status # "undefined", [Next]_vars
  PROVE  status' # "undefined"
<1> USE DEF Executes
<1>1. CASE Noop \/ Jmp \/ Call \/ Ret
  <2>1. PICK c, target : Perform("I", <<>>, [Machine EXCEPT !.regs = c], target, <<>>)
    BY <1>1 DEF Noop, Jmp, Call, Ret, Goto
  <2>. QED  BY <2>1, PerformSafe DEF Flavours
<1>2. ASSUME NEW t \in Flavours, If(t) \/ Ife(t) \/ Mov(t)
      PROVE  status' # "undefined"
  <2>1. /\ Arg1 \in Location /\ Arg1.kind # "wild"
        /\ Arg2(t) \in Location /\ Arg2(t).kind # "wild"
    BY <1>2, OperandTypes, OperandsOfOpcodes, WellFormedOperands DEF If, Ife, Mov
  <2>. QED  BY <1>2, <2>1, PerformSafe DEF If, Ife, Mov
<1>3. ASSUME NEW t \in Flavours, Ldc(t)
      PROVE  status' # "undefined"
  <2>1. /\ Arg1 \in Location /\ Arg1.kind # "wild"
        /\ ArgConst(t) \in Location /\ ArgConst(t).kind # "wild"
    BY <1>3, OperandTypes, OperandsOfOpcodes, WellFormedOperands DEF Ldc
  <2>. QED  BY <1>3, <2>1, PerformSafe DEF Ldc
<1>4. CASE Ldca
  <2> DEFINE entry == InPool(ARG2_VALUE(instr))
             address == IF entry = Wild THEN Wild ELSE Literal(entry.at)
  <2>1. Arg1 \in Location /\ Arg1.kind # "wild" /\ ArgConst("F").kind # "wild"
    BY <1>4, OperandTypes, WellFormedOperands
       DEF Ldca, Flavours, HasArg1, HasArg2, ReadsConstant, TakesImmediate,
           NOOP, MOVI, LDCI, LDCA, PUSHI, POPI, DUPI, IFI, IFEI, JMP, PRINTI, CALL, RET, ADDI
  <2>2. entry # Wild /\ entry.at \in Word
    BY <1>4, <2>1, InstrType, FieldTypes, InPoolType DEF Ldca, ArgConst, Wild
  <2>3. address \in Location /\ address.kind # "wild"
    BY <2>2, WordSizeType DEF Literal, Location, Word
  <2>4. PICK m : Perform("I", <<address, Arg1>>, m, pc + 1, <<>>)
    BY <1>4 DEF Ldca
  <2> HIDE DEF address
  <2>. QED  BY <2>1, <2>3, <2>4, PerformSafe DEF Flavours
<1>5. ASSUME NEW t \in Flavours, Push(t)
      PROVE  status' # "undefined"
  <2>1. Arg2(t) \in Location /\ Arg2(t).kind # "wild"
    BY <1>5, OperandTypes, OperandsOfOpcodes, WellFormedOperands DEF Push
  <2>2. - Size[t] \in Int
    BY SizeType
  <2>3. InRam(Moved(- Size[t])[SP]) \in Location /\ InRam(Moved(- Size[t])[SP]).kind # "wild"
    BY <2>2, StackCells DEF InRam
  <2>4. PICK m : Perform(t, <<Arg2(t), InRam(Moved(- Size[t])[SP])>>, m, pc + 1, <<>>)
    BY <1>5 DEF Push
  <2>. QED  BY <2>1, <2>3, <2>4, PerformSafe
<1>6. ASSUME NEW t \in Flavours, Pop(t) \/ Dup(t)
      PROVE  status' # "undefined"
  <2>1. Size[t] \in Int /\ - Size[t] \in Int
    BY SizeType
  <2>2. /\ InRam(cpu[SP]) \in Location /\ InRam(cpu[SP]).kind # "wild"
        /\ InRam(Moved(- Size[t])[SP]) \in Location /\ InRam(Moved(- Size[t])[SP]).kind # "wild"
    BY <2>1, StackCells DEF InRam
  <2>3. \A c \in Registers : ArgPop(c) \in Location /\ ArgPop(c).kind # "wild"
    <3>1. PopsOrDups(instr) /\ pc < Len(code.instrs)
      BY <1>6, OperandsOfOpcodes DEF Pop, Dup
    <3>2. \A c \in Registers : ArgPop(c).kind # "wild"
      BY <3>1, WellFormedOperands DEF Flavours
    <3>. QED  BY <3>1, <3>2, OperandTypes
  <2>4. Moved(Size[t]) \in Registers /\ Moved(- Size[t]) \in Registers
    BY <2>1, MovedType
  <2>5. \E m : \/ Perform(t, <<InRam(cpu[SP]), ArgPop(Moved(Size[t]))>>, m, pc + 1, <<>>)
               \/ Perform(t, <<InRam(cpu[SP]), InRam(Moved(- Size[t])[SP]),
                               ArgPop(Moved(- Size[t]))>>, m, pc + 1, <<>>)
    BY <1>6 DEF Pop, Dup
  <2>. QED  BY <2>2, <2>3, <2>4, <2>5, PerformSafe
<1>7. CASE (\E t \in Flavours : PrintNumber(t)) \/ PrintC
  <2>1. ASSUME NEW t \in Flavours, NEW printed,
               OPCODE(instr) = PRINTI + Flavour[t] \/ (OPCODE(instr) = PRINTC /\ t = "B"),
               pc < Len(code.instrs),
               Perform(t, <<Arg2(t)>>, Machine, pc + 1, printed)
        PROVE  status' # "undefined"
    <3>1. HasArg2(instr) /\ ~ ReadsConstant(instr) /\ (t = "F" => ~ TakesImmediate(instr))
      BY <2>1, OperandsOfOpcodes
         DEF HasArg2, ReadsConstant, NOOP, LDCI, LDCA, POPI, DUPI, JMP, PRINTC, CALL, RET
    <3>2. Arg2(t) \in Location /\ Arg2(t).kind # "wild"
      BY <2>1, <3>1, OperandTypes, WellFormedOperands
    <3>. QED  BY <2>1, <3>2, PerformSafe
  <2>2. CASE \E t \in Flavours : PrintNumber(t)
    BY <2>1, <2>2 DEF PrintNumber
  <2>3. CASE PrintC
    BY <2>1, <2>3 DEF PrintC, Flavours
  <2>. QED  BY <1>7, <2>2, <2>3
<1>8. ASSUME NEW t \in {"I", "F"}, Add(t)
      PROVE  status' # "undefined"
  <2>1. t \in Flavours /\ t # "B"
    BY DEF Flavours
  <2>2. /\ Arg1 \in Location /\ Arg1.kind # "wild"
        /\ Arg2(t) \in Location /\ Arg2(t).kind # "wild"
    BY <1>8, <2>1, OperandTypes, OperandsOfOpcodes, WellFormedOperands DEF Add
  <2>3. PICK m : Perform(t, <<Arg1, Arg2(t), Arg1>>, m, pc + 1, <<>>)
    BY <1>8 DEF Add
  <2>. QED  BY <2>1, <2>2, <2>3, PerformSafe
<1>9. CASE AddTraps \/ UnknownOpcode \/ Halt \/ Ended \/ UNCHANGED vars
  BY <1>9 DEF AddTraps, UnknownOpcode, Halt, Ended, vars
<1>. QED
  BY <1>1, <1>2, <1>3, <1>4, <1>5, <1>6, <1>7, <1>8, <1>9 DEF Next, Step

LEMMA CodeIsConstant == [Next]_vars => code' = code
BY PerformCases
   DEF Next, Step, vars, Ended, AddTraps, UnknownOpcode, Halt, Goto, Noop, Jmp, Call, Ret, If, Ife, Mov,
       Ldc, Ldca, Push, Pop, Dup, PrintNumber, PrintC, Add

(* A program with well formed operands never reads or writes outside the   *)
(* registers, the constants and the RAM it was given.                      *)
THEOREM MemorySafe == Spec => []MemorySafety
<1>1. Init => MemorySafety
  BY DEF Init, MemorySafety
<1>2. TypeOK /\ MemorySafety /\ [Next]_vars => MemorySafety'
  <2> SUFFICES ASSUME TypeOK, MemorySafety, [Next]_vars, WellFormed(code)'
               PROVE  status' # "undefined"
    BY DEF MemorySafety
  <2>1. WellFormed(code)
    BY CodeIsConstant DEF WellFormed
  <2>. QED  BY <2>1, StepSafe DEF MemorySafety
<1>. QED
  BY <1>1, <1>2, TypeCorrect, PTL DEF Spec

-----------------------------------------------------------------------------
(* The stack pointer.  Only a push, a pop or a duplication moves $sp when  *)
(* no instruction names it as its destination, and CHECK_RANGE of the cell *)
(* at the top keeps it below the end of the RAM: a push that wraps under   *)
(* address 0 and a pop of bytes that were never pushed are both refused.   *)
LEMMA SpIsAnotherRegister ==
  TypeOK => SP \in Reg /\ regs[SP] \in Word /\ cpu[SP] = regs[SP]
BY NumRegsAssumption DEF TypeOK, SP, PC, Reg, cpu

LEMMA WrittenKeepsSp ==
  ASSUME NEW t \in Flavours, NEW loc \in Location, loc # InReg(SP),
         loc.kind # "wild", loc.kind # "imm", NEW v, NEW m \in MachineType
  PROVE  Written(t, loc, v, m).regs[SP] = m.regs[SP]
<1>1. CASE loc.kind = "ram"
  BY <1>1 DEF Written, MachineType
<1>2. CASE loc.kind = "reg"
  <2>1. loc.at # SP /\ m.regs \in Registers
    BY <1>2 DEF Location, InReg, MachineType
  <2>. QED  BY <1>2, <2>1 DEF Written, MachineType, Registers
<1>. QED
  BY <1>1, <1>2 DEF Location

LEMMA DestinationIsNotSp ==
  ASSUME TypeOK, LeavesSpAlone(code), pc < Len(code.instrs)
  PROVE  /\ WritesArg1(instr) => Arg1 # InReg(SP)
         /\ PopsOrDups(instr) => \A c : ArgPop(c) # InReg(SP)
<1>1. ~ NamesDest(instr, SP)
  BY DEF LeavesSpAlone, TypeOK, Program, instr
<1>2. \A isAddr, r, c : Indirect(isAddr, r, c) = InReg(SP) => ~ isAddr /\ r = SP
  BY DEF Indirect, InReg, InRam, Wild
<1>. QED
  BY <1>1, <1>2 DEF NamesDest, Arg1, ArgPop

LEMMA MovedSp ==
  ASSUME TypeOK, NEW t \in Flavours
  PROVE  /\ Access(t, InRam(Moved(- Size[t])[SP])) = "running" => Moved(- Size[t])[SP] < RamSize
         /\ Access(t, InRam(cpu[SP])) = "running" => Moved(Size[t])[SP] < RamSize
<1>1. Size[t] \in Int /\ Size[t] > 0
  BY SizeType
<1>2. /\ Moved(- Size[t])[SP] \in Nat /\ cpu[SP] \in Nat
      /\ Moved(Size[t])[SP] = (cpu[SP] + Size[t]) % WordSize
  BY <1>1, MovedType, SpIsAnotherRegister, CpuType, WordSizeType DEF Word, Moved, Registers
<1>3. \A a \in Nat : Access(t, InRam(a)) = "running" => a + Size[t] < RamSize
  BY <1>1, RamSizeAssumption DEF Access, InRam, CHECK_RANGE
<1>4. \A n \in Nat : n < RamSize => n % WordSize = n
  BY RamSizeAssumption, WordSizeType
<1>. QED
  <2>1. Access(t, InRam(Moved(- Size[t])[SP])) = "running" => Moved(- Size[t])[SP] < RamSize
    BY <1>1, <1>2, <1>3, RamSizeAssumption
  <2>2. Access(t, InRam(cpu[SP])) = "running" => (cpu[SP] + Size[t]) % WordSize < RamSize
    BY <1>1, <1>2, <1>3, <1>4, RamSizeAssumption
  <2>. QED  BY <1>2, <2>1, <2>2

SpStaysPut == regs'[SP] = regs[SP] \/ regs'[SP] < RamSize

LEMMA PerformSp ==
  ASSUME NEW t, NEW accesses, NEW m, NEW target, NEW printed,
         Perform(t, accesses, m, target, printed),
         (\A k \in DOMAIN accesses : Access(t, accesses[k]) = "running") =>
            m.regs[SP] = regs[SP] \/ m.regs[SP] < RamSize
  PROVE  SpStaysPut
BY PerformCases DEF SpStaysPut

(* An instruction that only writes its first argument.                     *)
LEMMA WriteArg1Sp ==
  ASSUME TypeOK, LeavesSpAlone(code), pc < Len(code.instrs), WritesArg1(instr),
         NEW t \in Flavours, NEW accesses, NEW v, NEW target, NEW printed,
         \E k \in DOMAIN accesses : accesses[k] = Arg1,
         Perform(t, accesses, Written(t, Arg1, v, Machine), target, printed)
  PROVE  SpStaysPut
<1>1. Arg1 \in Location /\ Arg1.kind # "imm" /\ Arg1 # InReg(SP)
  BY OperandTypes, DestinationIsNotSp
<1>2. Machine \in MachineType /\ Machine.regs[SP] = regs[SP]
  BY MachineIsTyped, SpIsAnotherRegister DEF Machine
<1>3. Access(t, Arg1) = "running" => Arg1.kind # "wild"
  BY DEF Access
<1>. QED
  BY <1>1, <1>2, <1>3, WrittenKeepsSp, PerformSp

LEMMA StackOpSp ==
  ASSUME TypeOK, LeavesSpAlone(code), NEW t \in Flavours, Push(t) \/ Pop(t) \/ Dup(t)
  PROVE  SpStaysPut
<1> DEFINE down == Moved(- Size[t])
           up   == Moved(Size[t])
           from == InRam(cpu[SP])
           cell == InRam(down[SP])
<1>1. /\ down \in Registers /\ up \in Registers
      /\ [regs |-> down, ram |-> ram] \in MachineType
      /\ [regs |-> up, ram |-> ram] \in MachineType
  <2>1. Size[t] \in Int /\ - Size[t] \in Int
    BY SizeType
  <2>2. down \in Registers /\ up \in Registers
    BY <2>1, MovedType
  <2>. QED  BY <2>2 DEF MachineType, TypeOK, Memory
<1>2. /\ from \in Location /\ cell \in Location
      /\ cell # InReg(SP) /\ cell.kind = "ram"
  <2>1. - Size[t] \in Int
    BY SizeType
  <2>. QED  BY <2>1, StackCells DEF InRam, InReg
<1>3. CASE Push(t)
  <2>1. Written(t, cell, Load(t, Arg2(t)), [regs |-> down, ram |-> ram]).regs[SP] = down[SP]
    BY <1>1, <1>2, WrittenKeepsSp
  <2>2. Perform(t, <<Arg2(t), cell>>,
                Written(t, cell, Load(t, Arg2(t)), [regs |-> down, ram |-> ram]), pc + 1, <<>>)
    BY <1>3 DEF Push
  <2>3. Access(t, cell) = "running" => down[SP] < RamSize
    BY MovedSp
  <2> HIDE DEF down, cell
  <2>. QED  BY <2>1, <2>2, <2>3, PerformSp
<1>4. ASSUME Pop(t) \/ Dup(t)
      PROVE  \A c \in Registers : /\ ArgPop(c) \in Location /\ ArgPop(c).kind # "imm"
                                  /\ ArgPop(c) # InReg(SP)
  <2>1. pc < Len(code.instrs) /\ PopsOrDups(instr)
    BY <1>4, OperandsOfOpcodes DEF Pop, Dup, Executes
  <2>. QED  BY <2>1, OperandTypes, DestinationIsNotSp
<1>5. CASE Pop(t)
  <2> DEFINE next == Written(t, ArgPop(up), Load(t, from), [regs |-> up, ram |-> ram])
  <2>1. Perform(t, <<from, ArgPop(up)>>, next, pc + 1, <<>>)
    BY <1>5 DEF Pop
  <2>2. Access(t, ArgPop(up)) = "running" => next.regs[SP] = up[SP]
    <3>1. Access(t, ArgPop(up)) = "running" => ArgPop(up).kind # "wild"
      BY DEF Access
    <3> HIDE DEF up, from
    <3>. QED  BY <1>1, <1>4, <1>5, <3>1, WrittenKeepsSp
  <2>3. Access(t, from) = "running" => up[SP] < RamSize
    BY MovedSp
  <2> HIDE DEF up, from, next
  <2>. QED  BY <2>1, <2>2, <2>3, PerformSp
<1>6. CASE Dup(t)
  <2> DEFINE v    == Load(t, from)
             copy == Written(t, cell, v, [regs |-> down, ram |-> ram])
             next == Written(t, ArgPop(down), v, copy)
  <2>1. Perform(t, <<from, cell, ArgPop(down)>>, next, pc + 1, <<>>)
    BY <1>6 DEF Dup
  <2>2. ASSUME Access(t, from) = "running", Access(t, cell) = "running",
               Access(t, ArgPop(down)) = "running"
        PROVE  next.regs[SP] = down[SP]
    <3>1. ArgPop(down).kind # "wild"
      BY <2>2, AccessType DEF Access
    <3>2. v \in Value(t)
      BY <2>2, <1>2, LoadType
    <3> HIDE DEF down, from, cell, v
    <3>3. copy \in MachineType
      BY <2>2, <3>2, <1>1, <1>2, WrittenType
    <3>4. copy.regs[SP] = down[SP]
      BY <1>1, <1>2, WrittenKeepsSp
    <3> HIDE DEF copy
    <3>. QED  BY <3>1, <3>3, <3>4, <1>1, <1>4, <1>6, WrittenKeepsSp
  <2>3. Access(t, cell) = "running" => down[SP] < RamSize
    BY MovedSp
  <2> HIDE DEF down, from, cell, next
  <2>. QED  BY <2>1, <2>2, <2>3, PerformSp
<1>. QED
  BY <1>3, <1>5, <1>6

LEMMA StepSp ==
  ASSUME TypeOK, LeavesSpAlone(code), [Next]_vars
  PROVE  SpStaysPut
<1>1. cpu[SP] = regs[SP] /\ Machine.regs[SP] = regs[SP]
  BY SpIsAnotherRegister DEF Machine
<1>2. CASE Noop \/ Jmp \/ Call \/ Ret
  <2>1. [cpu EXCEPT ![R] = (pc + 1) % WordSize][SP] = regs[SP]
    BY <1>1, SpIsAnotherRegister, CpuType DEF Registers, R, SP
  <2>2. PICK c, target :
          c \in Registers /\ c[SP] = regs[SP] /\ Perform("I", <<>>, [Machine EXCEPT !.regs = c], target, <<>>)
    <3>1. [cpu EXCEPT ![R] = (pc + 1) % WordSize] \in Registers
      <4>1. (pc + 1) % WordSize \in Word
        BY RemainderType DEF TypeOK
      <4>. QED  BY <4>1, CpuType DEF Registers
    <3>. QED  BY <1>1, <1>2, <2>1, <3>1, CpuType DEF Noop, Jmp, Call, Ret, Goto
  <2>3. [Machine EXCEPT !.regs = c].regs = c
    BY MachineIsTyped DEF MachineType
  <2>. QED  BY <2>2, <2>3, PerformSp
<1>3. ASSUME NEW t \in Flavours, If(t) \/ Ife(t) \/ PrintNumber(t) \/ PrintC
      PROVE  SpStaysPut
  <2>1. PICK u, accesses, target, printed : Perform(u, accesses, Machine, target, printed)
    BY <1>3 DEF If, Ife, PrintNumber, PrintC
  <2>. QED  BY <1>1, <2>1, PerformSp
<1>4. ASSUME NEW t \in Flavours, Mov(t) \/ Ldc(t) \/ Ldca \/ (t # "B" /\ Add(t))
      PROVE  SpStaysPut
  <2>1. WritesArg1(instr) /\ pc < Len(code.instrs)
    <3>1. Flavour[t] \in 0 .. 2 /\ (t # "B" => Flavour[t] \in 0 .. 1)
      BY FlavourType DEF Flavours
    <3>. QED  BY <1>4, <3>1
                 DEF Mov, Ldc, Ldca, Add, Executes, WritesArg1, MOVI, LDCI, LDCA, ADDI
  <2>2. \E u, accesses, v, target, printed :
          /\ u \in Flavours
          /\ \E k \in DOMAIN accesses : accesses[k] = Arg1
          /\ Perform(u, accesses, Written(u, Arg1, v, Machine), target, printed)
    <3>1. \A x, y : \E k \in DOMAIN <<x, y>> : <<x, y>>[k] = y
      OBVIOUS
    <3>2. \A x, y : \E k \in DOMAIN <<y, x, y>> : <<y, x, y>>[k] = y
      OBVIOUS
    <3>. QED  BY <1>4, <3>1, <3>2 DEF Mov, Ldc, Ldca, Add, Flavours
  <2>. QED  BY <2>1, <2>2, WriteArg1Sp
<1>5. ASSUME NEW t \in Flavours, Push(t) \/ Pop(t) \/ Dup(t)
      PROVE  SpStaysPut
  BY <1>5, StackOpSp
<1>6. CASE AddTraps \/ UnknownOpcode \/ Halt \/ Ended \/ UNCHANGED vars
  BY <1>6 DEF AddTraps, UnknownOpcode, Halt, Ended, vars, SpStaysPut
<1>. QED
  BY <1>2, <1>3, <1>4, <1>5, <1>6 DEF Next, Step, Flavours

(* $sp never leaves the RAM in a program that moves it by the stack        *)
(* instructions only.                                                      *)
THEOREM StackPointerSafe == Spec => []StackPointerInRam
<1>1. Init => StackPointerInRam
  <2> SUFFICES ASSUME Init PROVE regs[SP] < RamSize
    BY DEF StackPointerInRam
  <2>1. regs[SP] = RamSize - 1
    BY NumRegsAssumption DEF Init, SP, H, Reg
  <2>. QED  BY <2>1, RamSizeAssumption
<1>2. TypeOK /\ StackPointerInRam /\ [Next]_vars => StackPointerInRam'
  <2> SUFFICES ASSUME TypeOK, StackPointerInRam, [Next]_vars, LeavesSpAlone(code)'
               PROVE  regs'[SP] < RamSize
    BY DEF StackPointerInRam
  <2>1. LeavesSpAlone(code)
    BY CodeIsConstant DEF LeavesSpAlone
  <2>. QED  BY <2>1, StepSp DEF StackPointerInRam, SpStaysPut
<1>. QED
  BY <1>1, <1>2, TypeCorrect, PTL DEF Spec

-----------------------------------------------------------------------------
(* Where the stack instructions of such a program find and leave $sp: a    *)
(* push is carried out exactly if there is room below, a pop if there is   *)
(* enough above, and neither changes what is above the old top.            *)
sp == regs[SP]

SpInRam == TypeOK /\ sp < RamSize

LEMMA TopType == SpInRam => sp \in 0 .. RamSize - 1 /\ cpu[SP] = sp
BY SpIsAnotherRegister, WordSizeType, RamSizeAssumption DEF SpInRam, Word, sp

LEMMA RamAccess ==
  ASSUME NEW t \in Flavours, NEW a \in Nat
  PROVE  Access(t, InRam(a)) = IF a + Size[t] < RamSize THEN "running" ELSE "access_violation"
BY SizeType, RamSizeAssumption DEF Access, InRam, CHECK_RANGE, InAllocation

LEMMA MovedTop ==
  ASSUME SpInRam, NEW delta \in Int
  PROVE  Moved(delta)[SP] = (sp + delta) % WordSize
BY SpIsAnotherRegister, CpuType DEF SpInRam, Moved, Registers, sp

LEMMA DownCases ==
  ASSUME SpInRam, NEW t \in Flavours
  PROVE  LET down == Moved(- Size[t])[SP]
         IN  IF Size[t] <= sp
             THEN down = sp - Size[t] /\ Access(t, InRam(down)) = "running"
             ELSE Access(t, InRam(down)) = "access_violation"
<1> DEFINE down == Moved(- Size[t])[SP]
<1>1. Size[t] \in Nat /\ Size[t] <= 4 /\ sp \in Nat /\ sp < RamSize
  BY SizeType, TopType, RamSizeAssumption
<1>2. down = (sp - Size[t]) % WordSize
  BY <1>1, MovedTop
<1>3. CASE Size[t] <= sp
  <2>1. \A n \in Nat : n < RamSize => n % WordSize = n
    BY WordIsWide, RamSizeAssumption
  <2>2. sp - Size[t] \in Nat /\ sp - Size[t] < RamSize
    BY <1>1, <1>3, RamSizeAssumption
  <2>3. down = sp - Size[t]
    BY <1>2, <2>1, <2>2
  <2>. QED
    BY <1>1, <1>3, <2>2, <2>3, RamAccess
<1>4. CASE sp < Size[t]
  <2>1. \A w \in Nat, n \in Int : w >= 16 /\ -4 <= n /\ n < 0 => n % w = w + n
    OBVIOUS
  <2>2. down = WordSize + (sp - Size[t])
    BY <1>1, <1>2, <1>4, <2>1, WordIsWide
  <2>. QED
    BY <1>1, <1>4, <2>2, RamAccess, WordIsWide, RamSizeAssumption
<1>. QED
  BY <1>1, <1>3, <1>4

LEMMA UpCases ==
  ASSUME SpInRam, NEW t \in Flavours
  PROVE  IF sp + Size[t] < RamSize
         THEN /\ Moved(Size[t])[SP] = sp + Size[t]
              /\ Access(t, InRam(cpu[SP])) = "running"
         ELSE Access(t, InRam(cpu[SP])) = "access_violation"
<1>1. Size[t] \in Nat /\ sp \in Nat /\ cpu[SP] = sp
  BY SizeType, TopType, RamSizeAssumption
<1>2. Moved(Size[t])[SP] = (sp + Size[t]) % WordSize
  BY <1>1, MovedTop
<1>3. \A n \in Nat : n < RamSize => n % WordSize = n
  BY WordIsWide, RamSizeAssumption
<1>. QED
  BY <1>1, <1>2, <1>3, RamAccess

LEMMA StoreRamBelowCell ==
  ASSUME NEW t \in Flavours, NEW mem, NEW address \in Nat, NEW v,
         NEW c \in Cell, address + Size[t] <= c
  PROVE  StoreRam(t, mem, address, v)[c] = mem[c]
<1>1. Len(<<v>>) = 1 /\ Len(WordBytes(v)) = 4
  BY DEF WordBytes
<1>2. ASSUME NEW bytes, Len(bytes) = Size[t]
      PROVE  StoreBytes(mem, address, bytes)[c] = mem[c]
  <2>1. c \notin address .. address + Len(bytes) - 1
    BY <1>2, SizeType DEF Cell
  <2>. QED
    BY <2>1 DEF StoreBytes
<1>. QED
  BY <1>1, <1>2, SizeType DEF StoreRam, StoreInt8, StoreInt32

(* The machine after v was stored below a $sp with room for it.            *)
LEMMA StoredBelowTop ==
  ASSUME SpInRam, NEW t \in Flavours, NEW v, Size[t] <= sp
  PROVE  LET top  == Moved(- Size[t])
             next == Written(t, InRam(top[SP]), v, [regs |-> top, ram |-> ram])
         IN  /\ next.regs[SP] = sp - Size[t]
             /\ \A c \in Cell : sp <= c => next.ram[c] = ram[c]
<1> DEFINE top  == Moved(- Size[t])
           next == Written(t, InRam(top[SP]), v, [regs |-> top, ram |-> ram])
<1>1. top[SP] = sp - Size[t] /\ top[SP] \in Nat /\ Size[t] \in Nat /\ sp \in Nat
  BY DownCases, TopType, SizeType, RamSizeAssumption
<1>2. next.regs = top /\ next.ram = StoreRam(t, ram, top[SP], v)
  BY DEF Written, InRam
<1> HIDE DEF top, next
<1>3. ASSUME NEW c \in Cell, sp <= c
      PROVE  next.ram[c] = ram[c]
  <2>1. top[SP] + Size[t] <= c
    BY <1>1, <1>3
  <2>. QED
    BY <1>1, <1>2, <2>1, StoreRamBelowCell
<1>. QED
  BY <1>1, <1>2, <1>3 DEF next, top

-----------------------------------------------------------------------------
(* The constants.  A push and a duplication store at the new $sp and       *)
(* above, so a cell that changes is one the stack has reached.             *)
LEMMA StoreRamAbove ==
  ASSUME NEW t \in Flavours, NEW mem \in Memory, NEW address \in Nat, NEW v,
         NEW c \in Cell, StoreRam(t, mem, address, v)[c] # mem[c]
  PROVE  address <= c
<1>1. Len(<<v>>) = 1 /\ Len(WordBytes(v)) = 4
  BY DEF WordBytes
<1>2. ASSUME NEW bytes, Len(bytes) \in Nat, StoreBytes(mem, address, bytes)[c] # mem[c]
      PROVE  address <= c
  <2>1. c \in address .. address + Len(bytes) - 1
    BY <1>2 DEF StoreBytes
  <2>. QED  BY <1>2, <2>1
<1>. QED
  BY <1>1, <1>2 DEF StoreRam, StoreInt8, StoreInt32

LEMMA DestinationIsNotRam ==
  ASSUME TypeOK, StoresOnlyByPush(code), pc < Len(code.instrs)
  PROVE  /\ WritesArg1(instr) => Arg1.kind # "ram"
         /\ PopsOrDups(instr) => \A c : ArgPop(c).kind # "ram"
<1>1. ~ StoresToRam(instr)
  BY DEF StoresOnlyByPush, TypeOK, Program, instr
<1>2. \A isAddr, r, c : Indirect(isAddr, r, c).kind = "ram" => isAddr
  BY DEF Indirect, InReg, InRam, Wild
<1>. QED
  BY <1>1, <1>2 DEF StoresToRam, Arg1, ArgPop

LEMMA WrittenKeepsRam ==
  ASSUME NEW t, NEW loc, loc.kind # "ram", NEW v, NEW m
  PROVE  Written(t, loc, v, m).ram = m.ram
BY DEF Written

ChangesAbove(c) == ram'[c] = ram[c] \/ regs'[SP] <= c

LEMMA PerformRam ==
  ASSUME NEW t, NEW accesses, NEW m, NEW target, NEW printed,
         Perform(t, accesses, m, target, printed), NEW c \in Cell,
         (\A k \in DOMAIN accesses : Access(t, accesses[k]) = "running") =>
            m.ram[c] = ram[c] \/ m.regs[SP] <= c
  PROVE  ChangesAbove(c)
BY PerformCases DEF ChangesAbove

(* The machine after v was stored at the new top of the stack.             *)
LEMMA StoredOnTop ==
  ASSUME TypeOK, NEW t \in Flavours, NEW v, NEW c \in Cell
  PROVE  LET top  == Moved(- Size[t])
             next == Written(t, InRam(top[SP]), v, [regs |-> top, ram |-> ram])
         IN  next.regs = top /\ (next.ram[c] = ram[c] \/ top[SP] <= c)
<1> DEFINE top  == Moved(- Size[t])
           next == Written(t, InRam(top[SP]), v, [regs |-> top, ram |-> ram])
<1>1. top[SP] \in Nat
  <2>1. - Size[t] \in Int
    BY SizeType
  <2>. QED  BY <2>1, MovedType, WordSizeType DEF Word
<1>2. next.regs = top /\ next.ram = StoreRam(t, ram, top[SP], v)
  BY DEF Written, InRam
<1>. QED
  BY <1>1, <1>2, StoreRamAbove DEF TypeOK, Memory

LEMMA StackOpRam ==
  ASSUME TypeOK, StoresOnlyByPush(code), NEW t \in Flavours,
         Push(t) \/ Pop(t) \/ Dup(t), NEW c \in Cell
  PROVE  ChangesAbove(c)
<1> DEFINE down == Moved(- Size[t])
           up   == Moved(Size[t])
           from == InRam(cpu[SP])
           cell == InRam(down[SP])
<1>1. CASE Push(t)
  <2> DEFINE next == Written(t, cell, Load(t, Arg2(t)), [regs |-> down, ram |-> ram])
  <2>1. Perform(t, <<Arg2(t), cell>>, next, pc + 1, <<>>)
    BY <1>1 DEF Push
  <2>2. next.ram[c] = ram[c] \/ next.regs[SP] <= c
    BY StoredOnTop
  <2> HIDE DEF cell, next
  <2>. QED  BY <2>1, <2>2, PerformRam
<1>2. ASSUME Pop(t) \/ Dup(t)
      PROVE  \A r : ArgPop(r).kind # "ram"
  BY <1>2, OperandsOfOpcodes, DestinationIsNotRam DEF Pop, Dup, Executes
<1>3. CASE Pop(t)
  <2> DEFINE next == Written(t, ArgPop(up), Load(t, from), [regs |-> up, ram |-> ram])
  <2>1. Perform(t, <<from, ArgPop(up)>>, next, pc + 1, <<>>)
    BY <1>3 DEF Pop
  <2>2. next.ram = ram
    BY <1>2, <1>3, WrittenKeepsRam
  <2> HIDE DEF up, from, next
  <2>. QED  BY <2>1, <2>2, PerformRam
<1>4. CASE Dup(t)
  <2> DEFINE v    == Load(t, from)
             copy == Written(t, cell, v, [regs |-> down, ram |-> ram])
             next == Written(t, ArgPop(down), v, copy)
  <2>1. Perform(t, <<from, cell, ArgPop(down)>>, next, pc + 1, <<>>)
    BY <1>4 DEF Dup
  <2>2. copy.regs = down /\ (copy.ram[c] = ram[c] \/ down[SP] <= c)
    BY StoredOnTop
  <2>3. next.ram = copy.ram
    BY <1>2, <1>4, WrittenKeepsRam
  <2>4. ASSUME \A k \in DOMAIN <<from, cell, ArgPop(down)>> :
                 Access(t, <<from, cell, ArgPop(down)>>[k]) = "running"
        PROVE  next.regs[SP] = down[SP]
    <3>1. /\ Access(t, from) = "running" /\ Access(t, cell) = "running"
          /\ Access(t, ArgPop(down)) = "running"
      <4> HIDE DEF from, cell, down
      <4>. QED  BY <2>4
    <3>2. /\ from \in Location /\ cell \in Location /\ cell.kind # "imm"
          /\ down \in Registers
      <4>1. - Size[t] \in Int
        BY SizeType
      <4>. QED  BY <4>1, StackCells, MovedType DEF InRam
    <3>3. /\ ArgPop(down) \in Location /\ ArgPop(down).kind # "imm"
          /\ ArgPop(down).kind # "wild" /\ ArgPop(down) # InReg(SP)
      <4>1. pc < Len(code.instrs) /\ PopsOrDups(instr) /\ LeavesSpAlone(code)
        BY <1>4, OperandsOfOpcodes DEF Dup, Executes, StoresOnlyByPush
      <4> HIDE DEF down
      <4>. QED  BY <3>1, <3>2, <4>1, OperandTypes, DestinationIsNotSp DEF Access
    <3>4. [regs |-> down, ram |-> ram] \in MachineType
      BY <3>2 DEF MachineType, TypeOK, Memory
    <3>5. v \in Value(t)
      BY <3>1, <3>2, LoadType
    <3> HIDE DEF from, cell, down, v
    <3>6. copy \in MachineType
      BY <3>1, <3>2, <3>4, <3>5, WrittenType
    <3> HIDE DEF copy
    <3>. QED  BY <2>2, <3>3, <3>6, WrittenKeepsSp
  <2> HIDE DEF down, from, cell, copy, next
  <2>. QED  BY <2>1, <2>2, <2>3, <2>4, PerformRam
<1>. QED
  BY <1>1, <1>3, <1>4

LEMMA StepRam ==
  ASSUME TypeOK, StoresOnlyByPush(code), [Next]_vars, NEW c \in Cell
  PROVE  ChangesAbove(c)
<1>1. CASE Noop \/ Jmp \/ Call \/ Ret
  <2>1. PICK r, target : Perform("I", <<>>, [Machine EXCEPT !.regs = r], target, <<>>)
    BY <1>1 DEF Noop, Jmp, Call, Ret, Goto
  <2>2. [Machine EXCEPT !.regs = r].ram = ram
    BY DEF Machine
  <2>. QED  BY <2>1, <2>2, PerformRam
<1>2. ASSUME NEW t \in Flavours, If(t) \/ Ife(t) \/ PrintNumber(t) \/ PrintC
      PROVE  ChangesAbove(c)
  <2>1. PICK u, accesses, target, printed : Perform(u, accesses, Machine, target, printed)
    BY <1>2 DEF If, Ife, PrintNumber, PrintC
  <2>2. Machine.ram = ram
    BY DEF Machine
  <2>. QED  BY <2>1, <2>2, PerformRam
<1>3. ASSUME NEW t \in Flavours, Mov(t) \/ Ldc(t) \/ Ldca \/ (t # "B" /\ Add(t))
      PROVE  ChangesAbove(c)
  <2>1. WritesArg1(instr) /\ pc < Len(code.instrs)
    <3>1. Flavour[t] \in 0 .. 2 /\ (t # "B" => Flavour[t] \in 0 .. 1)
      BY FlavourType DEF Flavours
    <3>. QED  BY <1>3, <3>1
                 DEF Mov, Ldc, Ldca, Add, Executes, WritesArg1, MOVI, LDCI, LDCA, ADDI
  <2>2. PICK u, accesses, v, target, printed :
          Perform(u, accesses, Written(u, Arg1, v, Machine), target, printed)
    BY <1>3 DEF Mov, Ldc, Ldca, Add
  <2>3. Written(u, Arg1, v, Machine).ram = ram
    BY <2>1, DestinationIsNotRam, WrittenKeepsRam DEF Machine
  <2>. QED  BY <2>2, <2>3, PerformRam
<1>4. ASSUME NEW t \in Flavours, Push(t) \/ Pop(t) \/ Dup(t)
      PROVE  ChangesAbove(c)
  BY <1>4, StackOpRam
<1>5. CASE AddTraps \/ UnknownOpcode \/ Halt \/ Ended \/ UNCHANGED vars
  BY <1>5 DEF AddTraps, UnknownOpcode, Halt, Ended, vars, ChangesAbove
<1>. QED
  BY <1>1, <1>2, <1>3, <1>4, <1>5 DEF Next, Step, Flavours

(* The constants of a program that stores only by pushing keep their bytes *)
(* in every step that leaves $sp above them.                               *)
THEOREM PoolIsKept == Spec => PoolOutlivesStack
<1> DEFINE FromPrograms == code \in Programs
           Kept == StoresOnlyByPush(code) /\ PoolChanged => regs'[SP] < Len(code.pool)
<1>1. Init => FromPrograms
  BY DEF Init
<1>2. FromPrograms /\ [Next]_vars => FromPrograms'
  BY CodeIsConstant
<1>3. TypeOK /\ TypeOK' /\ FromPrograms /\ [Next]_vars => [Kept]_vars
  <2> SUFFICES ASSUME TypeOK, TypeOK', FromPrograms, [Next]_vars, StoresOnlyByPush(code),
                      NEW c \in 0 .. Len(code.pool) - 1, ram'[c] # ram[c]
               PROVE  regs'[SP] < Len(code.pool)
    BY DEF PoolChanged
  <2>1. Len(code.pool) \in Nat /\ Len(code.pool) <= RamSize
    BY ProgramsAssumption DEF TypeOK, Program
  <2>2. c \in Cell /\ c \in Int
    BY <2>1, RamSizeAssumption DEF Cell
  <2>3. regs'[SP] <= c
    BY <2>2, StepRam DEF ChangesAbove
  <2>4. regs'[SP] \in Nat
    BY NumRegsAssumption, WordSizeType DEF TypeOK, SP, Reg, Word
  <2>. QED  BY <2>1, <2>2, <2>3, <2>4
<1>. QED
  BY <1>1, <1>2, <1>3, TypeCorrect, PTL DEF Spec, PoolOutlivesStack

-----------------------------------------------------------------------------
(* The byte instructions.                                                  *)
LEMMA LowByteKeepsTheRest ==
  ASSUME NEW word \in Word, NEW byte \in Byte
  PROVE  LowByteReplaced(word, byte) \div ByteSize = word \div ByteSize
<1> DEFINE high == word \div ByteSize
<1>1. word \in Nat /\ byte \in 0 .. ByteSize - 1
  BY WordSizeType DEF Word, Byte
<1>2. high \in Nat /\ word - (word % ByteSize) = ByteSize * high
  BY <1>1, ByteSizeType
<1> HIDE DEF high
<1>3. (ByteSize * high + byte) \div ByteSize = high
  BY <1>1, <1>2, ByteSizeType
<1>. QED
  BY <1>2, <1>3 DEF LowByteReplaced, high

SameUpperBytes(c, d) == \A r \in Reg \ {SP, PC} : c[r] \div ByteSize = d[r] \div ByteSize

(* What a byte written to a location leaves alone.                         *)
LEMMA ByteWritten ==
  ASSUME NEW loc \in Location, Access("B", loc) = "running", loc.kind # "imm",
         NEW v \in Byte, NEW m \in MachineType
  PROVE  /\ \A r \in Reg : Written("B", loc, v, m).regs[r] \div ByteSize = m.regs[r] \div ByteSize
         /\ \A c \in Cell : Written("B", loc, v, m).ram[c] # m.ram[c] => c = loc.at
<1>1. CASE loc.kind = "ram"
  <2>1. loc.at \in Nat
    BY <1>1, WordSizeType DEF Location, Word
  <2>2. /\ Written("B", loc, v, m).regs = m.regs
        /\ Written("B", loc, v, m).ram = StoreBytes(m.ram, loc.at, <<v>>)
    BY <1>1 DEF Written, StoreRam, StoreInt8, MachineType
  <2>3. ASSUME NEW c \in Cell, StoreBytes(m.ram, loc.at, <<v>>)[c] # m.ram[c] PROVE c = loc.at
    <3>1. c \in loc.at .. loc.at + 1 - 1 /\ c \in Int
      BY <2>3, RamSizeAssumption DEF StoreBytes, Cell
    <3>. QED  BY <2>1, <3>1
  <2>. QED  BY <2>2, <2>3
<1>2. CASE loc.kind = "reg"
  <2>1. loc.at \in Reg /\ m.regs \in Registers
    BY <1>2 DEF Location, MachineType
  <2>2. /\ Written("B", loc, v, m).regs = [m.regs EXCEPT ![loc.at] = LowByteReplaced(m.regs[loc.at], v)]
        /\ Written("B", loc, v, m).ram = m.ram
    BY <1>2 DEF Written, MachineType
  <2>3. LowByteReplaced(m.regs[loc.at], v) \div ByteSize = m.regs[loc.at] \div ByteSize
    BY <2>1, LowByteKeepsTheRest DEF Registers
  <2>. QED  BY <2>1, <2>2, <2>3 DEF Registers
<1>. QED
  BY <1>1, <1>2, AllowedAccess DEF Location, Flavours

LEMMA UpperBytesOfCpu ==
  ASSUME TypeOK
  PROVE  SameUpperBytes(cpu, regs) /\ \A delta : SameUpperBytes(Moved(delta), regs)
BY DEF TypeOK, cpu, Moved, SameUpperBytes

(* The instruction of a step of a byte opcode.                             *)
LEMMA ByteStep ==
  ASSUME TypeOK, [Next]_vars, status = "running", pc < Len(code.instrs), OPCODE(instr) \in ByteOpcodes
  PROVE  Mov("B") \/ Ldc("B") \/ Push("B") \/ Pop("B") \/ Dup("B") \/ UNCHANGED vars
<1>1. OPCODE(instr) \in {3, 6, 10, 13, 16}
  BY DEF ByteOpcodes, Flavour, MOVI, LDCI, PUSHI, POPI, DUPI
<1>2. ~ (Noop \/ Jmp \/ Call \/ Ret \/ Ldca \/ PrintC \/ AddTraps \/ UnknownOpcode \/ Halt \/ Ended)
  <2>1. ~ (Noop \/ Jmp \/ Call \/ Ret \/ Ldca \/ PrintC \/ AddTraps)
    BY <1>1 DEF Noop, Jmp, Call, Ret, Ldca, PrintC, AddTraps, Executes, NOOP, JMP, CALL, RET, LDCA, PRINTC, ADDI
  <2>2. ~ UnknownOpcode
    BY <1>1 DEF UnknownOpcode, NOOP, MAX_OPCODES
  <2>3. ~ Halt
    BY DEF Halt, TypeOK, Program
  <2>. QED  BY <2>1, <2>2, <2>3 DEF Ended
<1>3. ASSUME NEW t \in Flavours PROVE ~ (If(t) \/ Ife(t) \/ PrintNumber(t) \/ (t # "B" /\ Add(t)))
  <2>1. Flavour[t] \in 0 .. 2
    BY FlavourType DEF Flavours
  <2>. QED  BY <1>1, <2>1 DEF If, Ife, PrintNumber, Add, Executes, IFI, IFEI, PRINTI, ADDI
<1>4. ASSUME NEW t \in {"I", "F"} PROVE ~ (Mov(t) \/ Ldc(t) \/ Push(t) \/ Pop(t) \/ Dup(t))
  <2>1. Flavour[t] \in 0 .. 1
    BY FlavourType DEF Flavours
  <2>. QED  BY <1>1, <2>1 DEF Mov, Ldc, Push, Pop, Dup, Executes, MOVI, LDCI, PUSHI, POPI, DUPI
<1>. QED
  BY <1>2, <1>3, <1>4 DEF Next, Step, Flavours

Narrow ==
  /\ SameUpperBytes(regs', regs)
  /\ \A c, d \in Cell : ram'[c] # ram[c] /\ ram'[d] # ram[d] =>
       c = d \/ OPCODE(instr) = DUPI + Flavour["B"]

(* A byte is read and written once: the others are those of m.             *)
LEMMA OneByteIsNarrow ==
  ASSUME TypeOK, NEW from \in Location, NEW to \in Location, to.kind # "imm",
         NEW m \in MachineType, m.ram = ram, SameUpperBytes(m.regs, regs), NEW target, NEW printed,
         Perform("B", <<from, to>>, Written("B", to, Load("B", from), m), target, printed)
  PROVE  Narrow
<1> DEFINE accesses == <<from, to>>
<1>1. CASE \A k \in DOMAIN accesses : Access("B", accesses[k]) = "running"
  <2>1. Access("B", from) = "running" /\ Access("B", to) = "running"
    BY <1>1
  <2>2. Load("B", from) \in Byte
    BY <2>1, LoadType DEF Value, Flavours
  <2> DEFINE next == Written("B", to, Load("B", from), m)
  <2>3. /\ SameUpperBytes(next.regs, m.regs)
        /\ \A c \in Cell : next.ram[c] # m.ram[c] => c = to.at
    BY <2>1, <2>2, ByteWritten DEF SameUpperBytes
  <2>4. regs' = next.regs /\ ram' = next.ram
    BY <1>1, PerformCases
  <2> HIDE DEF next
  <2>. QED  BY <2>3, <2>4 DEF Narrow, SameUpperBytes
<1>2. CASE \E k \in DOMAIN accesses : Access("B", accesses[k]) # "running"
  <2>1. regs' = regs /\ ram' = ram
    BY <1>2, PerformCases
  <2>. QED  BY <2>1 DEF Narrow, SameUpperBytes
<1>. QED
  BY <1>1, <1>2

LEMMA ByteStackOps ==
  ASSUME TypeOK, Push("B") \/ Pop("B") \/ Dup("B")
  PROVE  Narrow
<1> DEFINE down == Moved(- Size["B"])
           up   == Moved(Size["B"])
           from == InRam(cpu[SP])
           cell == InRam(down[SP])
<1>1. "B" \in Flavours /\ pc < Len(code.instrs)
  BY DEF Flavours, Push, Pop, Dup, Executes
<1>2. Size["B"] \in Int /\ - Size["B"] \in Int
  BY <1>1, SizeType
<1>3. /\ down \in Registers /\ up \in Registers
      /\ [regs |-> down, ram |-> ram] \in MachineType
      /\ [regs |-> up, ram |-> ram] \in MachineType
      /\ SameUpperBytes(down, regs) /\ SameUpperBytes(up, regs)
  <2>1. down \in Registers /\ up \in Registers
    BY <1>2, MovedType
  <2>. QED  BY <2>1, UpperBytesOfCpu DEF MachineType, TypeOK, Memory
<1>4. from \in Location /\ cell \in Location /\ cell.kind # "imm"
  BY <1>2, StackCells DEF InRam
<1>5. /\ Arg2("B") \in Location
      /\ \A c \in Registers : ArgPop(c) \in Location /\ ArgPop(c).kind # "imm"
  BY <1>1, OperandTypes
<1>6. CASE Push("B")
  <2>1. Perform("B", <<Arg2("B"), cell>>,
                Written("B", cell, Load("B", Arg2("B")), [regs |-> down, ram |-> ram]), pc + 1, <<>>)
    BY <1>6 DEF Push
  <2> HIDE DEF down, cell
  <2>. QED  BY <1>3, <1>4, <1>5, <2>1, OneByteIsNarrow
<1>7. CASE Pop("B")
  <2>1. Perform("B", <<from, ArgPop(up)>>,
                Written("B", ArgPop(up), Load("B", from), [regs |-> up, ram |-> ram]), pc + 1, <<>>)
    BY <1>7 DEF Pop
  <2> HIDE DEF up, from
  <2>. QED  BY <1>3, <1>4, <1>5, <2>1, OneByteIsNarrow
<1>8. CASE Dup("B")
  <2> DEFINE v    == Load("B", from)
             copy == Written("B", cell, v, [regs |-> down, ram |-> ram])
             next == Written("B", ArgPop(down), v, copy)
             accesses == <<from, cell, ArgPop(down)>>
  <2>1. OPCODE(instr) = DUPI + Flavour["B"] /\ Perform("B", accesses, next, pc + 1, <<>>)
    BY <1>8 DEF Dup, Executes
  <2>2. ASSUME Access("B", from) = "running", Access("B", cell) = "running",
               Access("B", ArgPop(down)) = "running"
        PROVE  SameUpperBytes(next.regs, regs)
    <3>1. v \in Byte
      BY <1>1, <1>4, <2>2, LoadType DEF Value
    <3> DEFINE m == [regs |-> down, ram |-> ram]
    <3>2. m \in MachineType /\ SameUpperBytes(m.regs, regs) /\ ArgPop(down) \in Location /\ ArgPop(down).kind # "imm"
      BY <1>3, <1>5
    <3> HIDE DEF down, from, cell, v, m
    <3>3. copy \in MachineType
      BY <1>1, <1>4, <2>2, <3>1, <3>2, WrittenType DEF Value, m
    <3>4. SameUpperBytes(copy.regs, m.regs)
      BY <1>4, <2>2, <3>1, <3>2, ByteWritten DEF m, SameUpperBytes
    <3> HIDE DEF copy
    <3>5. SameUpperBytes(next.regs, copy.regs)
      BY <2>2, <3>1, <3>2, <3>3, ByteWritten DEF SameUpperBytes
    <3> HIDE DEF next
    <3>. QED  BY <3>2, <3>4, <3>5 DEF SameUpperBytes
  <2> HIDE DEF down, from, cell, next
  <2>3. SameUpperBytes(regs', regs)
    <3>1. CASE \A k \in DOMAIN accesses : Access("B", accesses[k]) = "running"
      <4>1. Access("B", accesses[1]) = "running" /\ Access("B", accesses[2]) = "running" /\ Access("B", accesses[3]) = "running"
        BY <3>1
      <4>2. regs' = next.regs
        BY <2>1, <3>1, PerformCases
      <4>. QED  BY <2>2, <4>1, <4>2
    <3>2. CASE \E k \in DOMAIN accesses : Access("B", accesses[k]) # "running"
      <4>1. regs' = regs
        BY <2>1, <3>2, PerformCases
      <4>. QED  BY <4>1 DEF SameUpperBytes
    <3>. QED  BY <3>1, <3>2
  <2>. QED  BY <2>1, <2>3 DEF Narrow
<1>. QED
  BY <1>6, <1>7, <1>8

(* An 8 bit instruction changes the low byte of one register besides $sp   *)
(* and $pc, or one cell of the RAM; DUPB may store in two.                 *)
THEOREM ByteWritesStayNarrow == Spec => ByteWritesAreNarrow
<1> DEFINE Step1 == status = "running" /\ pc < Len(code.instrs) /\ OPCODE(instr) \in ByteOpcodes =>
                      /\ \A r \in Reg \ {SP, PC} : regs'[r] \div ByteSize = regs[r] \div ByteSize
                      /\ \A c, d \in Cell : ram'[c] # ram[c] /\ ram'[d] # ram[d] =>
                           c = d \/ OPCODE(instr) = DUPI + Flavour["B"]
<1>1. TypeOK /\ [Next]_vars => [Step1]_vars
  <2> SUFFICES ASSUME TypeOK, [Next]_vars, ~ UNCHANGED vars,
                      status = "running", pc < Len(code.instrs), OPCODE(instr) \in ByteOpcodes
               PROVE  Narrow
    BY DEF Narrow, SameUpperBytes
  <2>1. "B" \in Flavours /\ Machine \in MachineType /\ Machine.ram = ram /\ SameUpperBytes(Machine.regs, regs)
    BY MachineIsTyped, UpperBytesOfCpu DEF Flavours, Machine
  <2>2. /\ Arg1 \in Location /\ Arg1.kind # "imm"
        /\ Arg2("B") \in Location /\ ArgConst("B") \in Location
    BY <2>1, OperandTypes
  <2>3. CASE Mov("B")
    BY <2>1, <2>2, <2>3, OneByteIsNarrow DEF Mov
  <2>4. CASE Ldc("B")
    BY <2>1, <2>2, <2>4, OneByteIsNarrow DEF Ldc
  <2>. QED  BY <2>3, <2>4, ByteStep, ByteStackOps
<1>. QED
  BY <1>1, TypeCorrect, PTL DEF Spec, ByteWritesAreNarrow
=============================================================================
