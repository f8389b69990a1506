------------------------- MODULE VmStackCallsProofs -------------------------
(***************************************************************************)
(* The machine implements ByteStack in programs that reach the RAM through *)
(* the stack only, and subroutines that follow the convention of VmCalls   *)
(* return to their callers: for every size of byte, of RAM and of register *)
(* file and every set of such programs.                                    *)
(***************************************************************************)
EXTENDS VmStack, VmCalls, VmProofs, SequenceTheorems

(* The state between two instructions of such a program.                   *)
StackInv == TypeOK /\ StackOnly(code) /\ sp < RamSize

LEMMA SpType == StackInv => SpInRam /\ sp \in 0 .. RamSize - 1 /\ cpu[SP] = sp
BY TopType DEF StackInv, SpInRam

LEMMA OnlyPushesStore == StackInv => StoresOnlyByPush(code) /\ LeavesSpAlone(code)
BY DEF StackInv, StackOnly, StoresOnlyByPush, UsesRamByStackOnly, StoresToRam, WritesArg1, HasArg1

-----------------------------------------------------------------------------
(* Accesses.  CHECK_RANGE is the only source of access violations.         *)
LEMMA OtherAccess ==
  ASSUME NEW t, NEW loc, loc.kind # "ram"
  PROVE  Access(t, loc) # "access_violation"
BY DEF Access

LEMMA OperandsOffRam ==
  ASSUME StackInv, pc < Len(code.instrs), NEW t \in Flavours, t = "F" => ~ TakesImmediate(instr)
  PROVE  /\ HasArg2(instr) /\ ~ ReadsConstant(instr) => Arg2(t).kind # "ram"
         /\ HasArg2(instr) /\ ReadsConstant(instr) /\ OPCODE(instr) # LDCA => ArgConst(t).kind # "ram"
<1>1. UsesRamByStackOnly(instr)
  BY DEF StackInv, StackOnly, TypeOK, Program, instr
<1>2. \A r, c : Indirect(FALSE, r, c).kind # "ram"
  BY DEF Indirect, InReg, Wild
<1>3. \A v : Literal(v).kind # "ram"
  BY DEF Literal
<1>4. CASE HasArg2(instr) /\ ~ ReadsConstant(instr)
  <2>1. OPCODE(instr) # LDCA
    BY <1>4 DEF ReadsConstant, LDCI, LDCA
  <2>. QED
    BY <1>1, <1>2, <1>3, <1>4, <2>1, FlagTypes DEF UsesRamByStackOnly, Arg2
<1>5. CASE HasArg2(instr) /\ ReadsConstant(instr) /\ OPCODE(instr) # LDCA
  BY <1>1, <1>3, <1>5 DEF UsesRamByStackOnly, ArgConst
<1>. QED
  BY <1>4, <1>5

-----------------------------------------------------------------------------
(* Instructions other than those of the stack: a step that the stack does  *)
(* not notice.                                                             *)
Quiet == regs'[SP] = sp /\ ram' = ram /\ status' # "access_violation"

LEMMA PerformQuiet ==
  ASSUME status = "running", NEW t, NEW accesses, NEW m, NEW target, NEW printed,
         Perform(t, accesses, m, target, printed),
         \A k \in DOMAIN accesses : accesses[k].kind # "ram",
         (\A k \in DOMAIN accesses : Access(t, accesses[k]) = "running") =>
            m.ram = ram /\ m.regs[SP] = sp
  PROVE  Quiet
BY PerformCases, OtherAccess DEF Quiet, sp

LEMMA WriteArg1Quiet ==
  ASSUME StackInv, status = "running", pc < Len(code.instrs), WritesArg1(instr),
         NEW t \in Flavours, NEW accesses, NEW v, NEW target, NEW printed,
         \A k \in DOMAIN accesses : accesses[k].kind # "ram",
         \E k \in DOMAIN accesses : accesses[k] = Arg1,
         Perform(t, accesses, Written(t, Arg1, v, Machine), target, printed)
  PROVE  Quiet
<1>1. /\ Arg1 \in Location /\ Arg1.kind # "imm" /\ Arg1 # InReg(SP) /\ Arg1.kind # "ram"
  BY OnlyPushesStore, OperandTypes, DestinationIsNotSp, DestinationIsNotRam DEF StackInv
<1>2. Machine \in MachineType /\ Machine.regs[SP] = sp /\ Machine.ram = ram
  BY MachineIsTyped, SpType DEF Machine, StackInv
<1>3. Access(t, Arg1) = "running" => Arg1.kind # "wild"
  BY DEF Access
<1>. QED
  BY <1>1, <1>2, <1>3, WrittenKeepsSp, WrittenKeepsRam, PerformQuiet

LEMMA ControlQuiet ==
  ASSUME StackInv, Noop \/ Jmp \/ Call \/ Ret
  PROVE  status = "running" /\ Quiet
<1>1. status = "running"
  BY DEF Noop, Jmp, Call, Ret, Executes
<1>2. [cpu EXCEPT ![R] = (pc + 1) % WordSize][SP] = sp
  BY SpType, CpuType, SpIsAnotherRegister DEF Registers, R, SP, StackInv
<1>3. PICK c, target :
        c[SP] = sp /\ Perform("I", <<>>, [Machine EXCEPT !.regs = c], target, <<>>)
  BY <1>2, SpType DEF Noop, Jmp, Call, Ret, Goto
<1> DEFINE m == [Machine EXCEPT !.regs = c]
<1>4. m.regs = c /\ m.ram = ram
  BY DEF Machine
<1>5. \A k \in DOMAIN <<>> : FALSE
  OBVIOUS
<1>6. Perform("I", <<>>, m, target, <<>>)
  BY <1>3
<1> HIDE DEF m
<1>. QED
  BY <1>1, <1>3, <1>4, <1>5, <1>6, PerformQuiet

LEMMA BranchQuiet ==
  ASSUME StackInv, NEW t \in Flavours, If(t) \/ Ife(t)
  PROVE  status = "running" /\ Quiet
<1>1. status = "running" /\ pc < Len(code.instrs)
  BY DEF If, Ife, Executes
<1>2. /\ HasArg1(instr) /\ HasArg2(instr) /\ ~ ReadsConstant(instr)
      /\ t = "F" => ~ TakesImmediate(instr)
  BY OperandsOfOpcodes DEF If, Ife, Executes
<1>3. Arg2(t).kind # "ram"
  BY <1>1, <1>2, OperandsOffRam
<1>4. Arg1.kind # "ram"
  <2>1. ~ IS_ARG1_ADDR(instr)
    BY <1>1, <1>2 DEF StackInv, StackOnly, UsesRamByStackOnly, TypeOK, Program, instr
  <2>. QED
    BY <2>1 DEF Arg1, Indirect, InReg, Wild
<1>5. Machine.ram = ram /\ Machine.regs[SP] = sp
  BY SpType DEF Machine
<1>6. PICK target : Perform(t, <<Arg2(t), Arg1>>, Machine, target, <<>>)
  BY DEF If, Ife
<1>. QED
  BY <1>1, <1>3, <1>4, <1>5, <1>6, PerformQuiet

LEMMA PrintQuiet ==
  ASSUME StackInv, (\E t \in Flavours : PrintNumber(t)) \/ PrintC
  PROVE  status = "running" /\ Quiet
<1>1. ASSUME NEW t \in Flavours, NEW printed,
             OPCODE(instr) = PRINTI + Flavour[t] \/ (OPCODE(instr) = PRINTC /\ t = "B"),
             status = "running", pc < Len(code.instrs),
             Perform(t, <<Arg2(t)>>, Machine, pc + 1, printed)
      PROVE  status = "running" /\ Quiet
  <2>1. HasArg2(instr) /\ ~ ReadsConstant(instr) /\ (t = "F" => ~ TakesImmediate(instr))
    BY <1>1, OperandsOfOpcodes
       DEF HasArg2, ReadsConstant, NOOP, LDCI, LDCA, POPI, DUPI, JMP, PRINTC, CALL, RET
  <2>2. Arg2(t).kind # "ram"
    BY <1>1, <2>1, OperandsOffRam
  <2>3. Machine.ram = ram /\ Machine.regs[SP] = sp
    BY SpType DEF Machine
  <2>. QED
    BY <1>1, <2>2, <2>3, PerformQuiet
<1>2. CASE \E t \in Flavours : PrintNumber(t)
  BY <1>1, <1>2 DEF PrintNumber, Executes
<1>3. CASE PrintC
  BY <1>1, <1>3 DEF PrintC, Executes, Flavours
<1>. QED
  BY <1>2, <1>3

LEMMA MoveQuiet ==
  ASSUME StackInv, NEW t \in Flavours, Mov(t) \/ Ldc(t) \/ Ldca \/ (t # "B" /\ Add(t))
  PROVE  status = "running" /\ Quiet
<1>1. status = "running" /\ pc < Len(code.instrs) /\ WritesArg1(instr)
  <2>1. Flavour[t] \in 0 .. 2 /\ (t # "B" => Flavour[t] \in 0 .. 1)
    BY FlavourType DEF Flavours
  <2>. QED
    BY <2>1 DEF Mov, Ldc, Ldca, Add, Executes, WritesArg1, MOVI, LDCI, LDCA, ADDI
<1>2. Arg1.kind # "ram"
  BY <1>1, OnlyPushesStore, DestinationIsNotRam DEF StackInv
<1>3. CASE Mov(t)
  <2>1. Arg2(t).kind # "ram"
    BY <1>1, <1>3, OperandsOfOpcodes, OperandsOffRam DEF Mov, Executes
  <2>. QED
    BY <1>1, <1>2, <1>3, <2>1, WriteArg1Quiet DEF Mov
<1>4. CASE Ldc(t)
  <2>1. OPCODE(instr) # LDCA
    BY <1>4, FlavourType DEF Ldc, Executes, LDCI, LDCA
  <2>2. ArgConst(t).kind # "ram"
    BY <1>1, <1>4, <2>1, OperandsOfOpcodes, OperandsOffRam DEF Ldc, Executes
  <2>. QED
    BY <1>1, <1>2, <1>4, <2>2, WriteArg1Quiet DEF Ldc
<1>5. CASE Ldca
  <2> DEFINE entry   == InPool(ARG2_VALUE(instr))
             address == IF entry = Wild THEN Wild ELSE Literal(entry.at)
  <2>1. address.kind # "ram"
    BY DEF Wild, Literal
  <2>2. PICK v : Perform("I", <<address, Arg1>>, Written("I", Arg1, v, Machine), pc + 1, <<>>)
    BY <1>5 DEF Ldca
  <2> HIDE DEF address
  <2>. QED
    BY <1>1, <1>2, <2>1, <2>2, WriteArg1Quiet DEF Flavours
<1>6. CASE t # "B" /\ Add(t)
  <2>1. Arg2(t).kind # "ram"
    BY <1>1, <1>6, OperandsOfOpcodes, OperandsOffRam DEF Add, Executes
  <2>2. PICK v : Perform(t, <<Arg1, Arg2(t), Arg1>>, Written(t, Arg1, v, Machine), pc + 1, <<>>)
    BY <1>6 DEF Add
  <2>. QED
    BY <1>1, <1>2, <2>1, <2>2, WriteArg1Quiet
<1>. QED
  BY <1>3, <1>4, <1>5, <1>6

-----------------------------------------------------------------------------
(* The bytes on the stack.                                                 *)
BytesFromSp ==
  /\ sp \in 0 .. RamSize - 1
  /\ StackBytes \in Seq(Byte) /\ Len(StackBytes) = RamSize - 1 - sp
  /\ \A k \in 1 .. RamSize - 1 - sp : StackBytes[k] = ram[sp + k - 1]

LEMMA StackBytesType == StackInv => BytesFromSp
<1> SUFFICES ASSUME StackInv PROVE BytesFromSp
  OBVIOUS
<1>1. sp \in 0 .. RamSize - 1 /\ RamSize - 1 - sp \in Nat
  BY SpType, RamSizeAssumption
<1>2. \A k \in 1 .. RamSize - 1 - sp : sp + k - 1 \in Cell
  BY <1>1, RamSizeAssumption DEF Cell
<1>3. \A k \in 1 .. RamSize - 1 - sp : ram[sp + k - 1] \in Byte
  BY <1>2 DEF StackInv, TypeOK
<1>4. StackBytes = [k \in 1 .. RamSize - 1 - sp |-> ram[sp + k - 1]]
  BY DEF StackBytes, sp
<1>. QED
  BY <1>1, <1>3, <1>4 DEF BytesFromSp

LEMMA Pushed ==
  ASSUME StackInv, StackInv', status = "running", status' = "running",
         NEW n \in {1, 4}, n <= sp, regs'[SP] = sp - n,
         \A c \in Cell : sp <= c => ram'[c] = ram[c]
  PROVE  Stack!Push(n)
<1> DEFINE top == [k \in 1 .. n |-> ram'[sp - n + k - 1]]
<1>1. /\ sp \in 0 .. RamSize - 1
      /\ StackBytes \in Seq(Byte) /\ Len(StackBytes) = RamSize - 1 - sp
      /\ \A k \in 1 .. RamSize - 1 - sp : StackBytes[k] = ram[sp + k - 1]
  BY StackBytesType DEF BytesFromSp
<1>2. /\ StackBytes' \in Seq(Byte) /\ Len(StackBytes') = RamSize - 1 - (sp - n)
      /\ \A k \in 1 .. RamSize - 1 - (sp - n) : StackBytes'[k] = ram'[sp - n + k - 1]
  <2>1. BytesFromSp'
    BY StackBytesType, PTL
  <2>2. sp' = sp - n
    BY DEF sp
  <2>. QED
    BY <2>1, <2>2 DEF BytesFromSp
<1>3. top \in [1 .. n -> Byte] /\ top \in Seq(Byte) /\ Len(top) = n
  <2>1. \A k \in 1 .. n : sp - n + k - 1 \in Cell
    BY <1>1, RamSizeAssumption DEF Cell
  <2>2. ram' \in [Cell -> Byte]
    BY DEF StackInv, TypeOK
  <2>3. \A k \in 1 .. n : ram'[sp - n + k - 1] \in Byte
    BY <2>1, <2>2
  <2>. QED
    BY <2>3
<1>4. StackBytes' = top \o StackBytes
  <2> DEFINE joined == top \o StackBytes
  <2> HIDE DEF top
  <2>1. RamSize - 1 - sp \in Nat
    BY <1>1, RamSizeAssumption
  <2>2. /\ joined \in Seq(Byte) /\ Len(joined) = n + (RamSize - 1 - sp)
        /\ \A k \in 1 .. Len(joined) :
             joined[k] = IF k <= n THEN top[k] ELSE StackBytes[k - n]
    BY <1>1, <1>3, <2>1, ConcatProperties
  <2>3. Len(joined) = RamSize - 1 - (sp - n)
    BY <1>1, <2>2, RamSizeAssumption
  <2>4. ASSUME NEW k \in 1 .. Len(joined)
        PROVE  joined[k] = StackBytes'[k]
    <3>1. k \in 1 .. RamSize - 1 - (sp - n)
      BY <2>4, <2>3
    <3>2. StackBytes'[k] = ram'[sp - n + k - 1]
      BY <1>2, <3>1
    <3>3. CASE k <= n
      BY <2>2, <3>1, <3>2, <3>3 DEF top
    <3>4. CASE k > n
      <4>1. k - n \in 1 .. RamSize - 1 - sp /\ sp + (k - n) - 1 \in Cell
        BY <1>1, <2>2, <3>4, RamSizeAssumption DEF Cell
      <4>2. joined[k] = ram[sp + (k - n) - 1]
        BY <1>1, <2>2, <3>4, <4>1, SMTT(30)
      <4>3. ram'[sp + (k - n) - 1] = ram[sp + (k - n) - 1]
        BY <1>1, <3>4, <4>1
      <4>4. sp + (k - n) - 1 = sp - n + k - 1
        BY <1>1
      <4>. QED
        BY <3>2, <4>2, <4>3, <4>4
    <3>. QED
      BY <2>2, <3>3, <3>4, RamSizeAssumption
  <2> HIDE DEF joined
  <2>5. joined = StackBytes'
    BY <1>2, <2>2, <2>4, <2>3, SeqEqual
  <2>. QED
    BY <2>5 DEF joined
<1>5. Len(StackBytes) + n <= RamSize - 1
  BY <1>1, RamSizeAssumption
<1> HIDE DEF top
<1>. QED
  BY <1>3, <1>4, <1>5 DEF Stack!Push

LEMMA Popped ==
  ASSUME StackInv, StackInv', status = "running", status' = "running",
         NEW n \in {1, 4}, sp + n < RamSize, regs'[SP] = sp + n, ram' = ram
  PROVE  Stack!Pop(n)
<1>1. /\ sp \in 0 .. RamSize - 1
      /\ StackBytes \in Seq(Byte) /\ Len(StackBytes) = RamSize - 1 - sp
      /\ \A k \in 1 .. RamSize - 1 - sp : StackBytes[k] = ram[sp + k - 1]
  BY StackBytesType DEF BytesFromSp
<1>2. /\ StackBytes' \in Seq(Byte) /\ Len(StackBytes') = RamSize - 1 - (sp + n)
      /\ \A k \in 1 .. RamSize - 1 - (sp + n) : StackBytes'[k] = ram[sp + n + k - 1]
  <2>1. BytesFromSp'
    BY StackBytesType, PTL
  <2>2. sp' = sp + n
    BY DEF sp
  <2>. QED
    BY <2>1, <2>2 DEF BytesFromSp
<1>3. n <= Len(StackBytes)
  BY <1>1, RamSizeAssumption
<1>4. StackBytes' = SubSeq(StackBytes, n + 1, Len(StackBytes))
  <2> DEFINE rest == SubSeq(StackBytes, n + 1, Len(StackBytes))
  <2>1. /\ rest \in Seq(Byte) /\ Len(rest) = RamSize - 1 - sp - n
        /\ \A k \in 1 .. RamSize - 1 - sp - n : rest[k] = StackBytes[n + k]
    BY <1>1, <1>3, SubSeqProperties, RamSizeAssumption
  <2>2. ASSUME NEW k \in 1 .. Len(rest)
        PROVE  rest[k] = StackBytes'[k]
    <3>1. n + k \in 1 .. RamSize - 1 - sp /\ k \in 1 .. RamSize - 1 - (sp + n)
      BY <1>1, <2>1, RamSizeAssumption
    <3>2. rest[k] = ram[sp + (n + k) - 1]
      BY <1>1, <2>1, <3>1
    <3>3. sp + (n + k) - 1 = sp + n + k - 1
      BY <1>1
    <3>. QED
      BY <1>2, <3>1, <3>2, <3>3
  <2> HIDE DEF rest
  <2>. QED
    BY <1>1, <1>2, <2>1, <2>2, SeqEqual, RamSizeAssumption
<1>. QED
  BY <1>3, <1>4 DEF Stack!Pop

LEMMA Refused ==
  ASSUME StackInv, status = "running", status' = "access_violation",
         regs' = regs, ram' = ram, NEW n \in {1, 4}
  PROVE  /\ sp < n => Stack!Overflow(n)
         /\ sp + n >= RamSize => Stack!Underflow(n)
<1>1. sp \in 0 .. RamSize - 1 /\ Len(StackBytes) = RamSize - 1 - sp
  BY StackBytesType DEF BytesFromSp
<1>2. StackBytes' = StackBytes
  BY DEF StackBytes
<1>. QED
  BY <1>1, <1>2, RamSizeAssumption DEF Stack!Overflow, Stack!Underflow

LEMMA Unnoticed ==
  ASSUME regs'[SP] = sp, ram' = ram,
         (status' = "access_violation") <=> (status = "access_violation")
  PROVE  UNCHANGED <<StackBytes, status = "access_violation">>
BY DEF StackBytes, sp

-----------------------------------------------------------------------------
(* The stack instructions.  An access that fails leaves the stack alone;   *)
(* the one that ends in an access violation is that of a cell of the       *)
(* stack, and it fails exactly when the stack is full or has too little.   *)
StackStep == [Stack!Next]_<<StackBytes, status = "access_violation">>

LEMMA QuietStep ==
  ASSUME status = "running", Quiet
  PROVE  StackStep
BY Unnoticed DEF Quiet, StackStep

LEMMA FailedStep ==
  ASSUME StackInv, status = "running", NEW t \in Flavours,
         regs' = regs, ram' = ram,
         status' = "access_violation" => sp < Size[t] \/ sp + Size[t] >= RamSize
  PROVE  StackStep
<1>1. CASE status' = "access_violation"
  <2>1. Size[t] \in {1, 4}
    BY SizeType
  <2>2. Stack!Overflow(Size[t]) \/ Stack!Underflow(Size[t])
    BY <1>1, <2>1, Refused
  <2>. QED
    BY <2>1, <2>2 DEF StackStep, Stack!Next, Stack!Width
<1>2. CASE status' # "access_violation"
  BY <1>2, Unnoticed DEF StackStep, sp
<1>. QED
  BY <1>1, <1>2

LEMMA PushStep ==
  ASSUME StackInv, StackInv', NEW t \in Flavours, Push(t)
  PROVE  StackStep
<1> DEFINE down == Moved(- Size[t])
           cell == InRam(down[SP])
           next == Written(t, cell, Load(t, Arg2(t)), [regs |-> down, ram |-> ram])
<1>1. status = "running" /\ pc < Len(code.instrs)
  BY DEF Push, Executes
<1>2. Access(t, Arg2(t)) # "access_violation"
  BY <1>1, OperandsOfOpcodes, OperandsOffRam, OtherAccess DEF Push, Executes
<1>3. Perform(t, <<Arg2(t), cell>>, next, pc + 1, <<>>)
  BY DEF Push
<1>4. /\ Access(t, cell) = IF Size[t] <= sp THEN "running" ELSE "access_violation"
      /\ Size[t] <= sp => /\ next.regs[SP] = sp - Size[t]
                          /\ \A c \in Cell : sp <= c => next.ram[c] = ram[c]
  BY SpType, DownCases, StoredBelowTop
<1>5. Size[t] \in {1, 4} /\ sp \in Nat
  BY SizeType, SpType
<1> HIDE DEF cell, next
<1>6. CASE Access(t, Arg2(t)) = "running" /\ Access(t, cell) = "running"
  <2>1. Size[t] <= sp /\ regs' = next.regs /\ ram' = next.ram /\ status' = status
    BY <1>3, <1>4, <1>6, PerformCases
  <2>2. Stack!Push(Size[t])
    BY <1>1, <1>4, <1>5, <2>1, Pushed
  <2>. QED
    BY <1>5, <2>2 DEF StackStep, Stack!Next, Stack!Width
<1>7. CASE ~ (Access(t, Arg2(t)) = "running" /\ Access(t, cell) = "running")
  <2>1. /\ regs' = regs /\ ram' = ram
        /\ status' \in {Access(t, Arg2(t)), Access(t, cell)}
    BY <1>3, <1>7, PerformCases
  <2>2. status' = "access_violation" => sp < Size[t]
    BY <1>2, <1>4, <1>5, <2>1
  <2>. QED
    BY <1>1, <2>1, <2>2, FailedStep
<1>. QED
  BY <1>6, <1>7

(* Where a value popped or duplicated goes: a register other than $sp.     *)
LEMMA PopsToRegister ==
  ASSUME StackInv, NEW t \in Flavours, Pop(t) \/ Dup(t), NEW c \in Registers
  PROVE  /\ ArgPop(c) \in Location /\ ArgPop(c).kind \notin {"imm", "ram"}
         /\ ArgPop(c) # InReg(SP)
<1>1. pc < Len(code.instrs) /\ PopsOrDups(instr)
  BY OperandsOfOpcodes DEF Pop, Dup, Executes
<1>. QED
  BY <1>1, OnlyPushesStore, OperandTypes, DestinationIsNotSp, DestinationIsNotRam DEF StackInv

LEMMA MovedMachine ==
  ASSUME StackInv, NEW t \in Flavours
  PROVE  \A delta \in {Size[t], - Size[t]} :
           /\ Moved(delta) \in Registers
           /\ [regs |-> Moved(delta), ram |-> ram] \in MachineType
           /\ InRam(Moved(delta)[SP]) \in Location
<1>1. \A delta \in {Size[t], - Size[t]} : delta \in Int
  BY SizeType
<1>2. \A delta \in {Size[t], - Size[t]} : Moved(delta) \in Registers
  BY <1>1, MovedType DEF StackInv
<1>. QED
  BY <1>1, <1>2, StackCells DEF StackInv, MachineType, TypeOK, Memory

LEMMA PopStep ==
  ASSUME StackInv, StackInv', NEW t \in Flavours, Pop(t)
  PROVE  StackStep
<1> DEFINE up   == Moved(Size[t])
           from == InRam(cpu[SP])
           next == Written(t, ArgPop(up), Load(t, from), [regs |-> up, ram |-> ram])
<1>1. status = "running"
  BY DEF Pop, Executes
<1>2. /\ ArgPop(up) \in Location /\ ArgPop(up).kind \notin {"imm", "ram"}
      /\ ArgPop(up) # InReg(SP) /\ [regs |-> up, ram |-> ram] \in MachineType
  BY MovedMachine, PopsToRegister
<1>3. Perform(t, <<from, ArgPop(up)>>, next, pc + 1, <<>>)
  BY DEF Pop
<1>4. /\ Access(t, from) = IF sp + Size[t] < RamSize THEN "running" ELSE "access_violation"
      /\ sp + Size[t] < RamSize => up[SP] = sp + Size[t]
  BY SpType, UpCases
<1>5. Size[t] \in {1, 4} /\ sp \in Nat
  BY SizeType, SpType
<1> HIDE DEF up, from
<1>6. Access(t, ArgPop(up)) # "access_violation"
  BY <1>2, OtherAccess
<1>7. next.ram = ram /\ (Access(t, ArgPop(up)) = "running" => next.regs[SP] = up[SP])
  <2>1. Access(t, ArgPop(up)) = "running" => ArgPop(up).kind # "wild"
    BY DEF Access
  <2>. QED
    BY <1>2, <2>1, WrittenKeepsSp, WrittenKeepsRam
<1> HIDE DEF next
<1>8. CASE Access(t, from) = "running" /\ Access(t, ArgPop(up)) = "running"
  <2>1. regs' = next.regs /\ ram' = next.ram /\ status' = status
    BY <1>3, <1>8, PerformCases
  <2>2. Stack!Pop(Size[t])
    BY <1>1, <1>4, <1>5, <1>7, <1>8, <2>1, Popped
  <2>. QED
    BY <1>5, <2>2 DEF StackStep, Stack!Next, Stack!Width
<1>9. CASE ~ (Access(t, from) = "running" /\ Access(t, ArgPop(up)) = "running")
  <2>1. /\ regs' = regs /\ ram' = ram
        /\ status' \in {Access(t, from), Access(t, ArgPop(up))}
    BY <1>3, <1>9, PerformCases
  <2>2. status' = "access_violation" => sp + Size[t] >= RamSize
    BY <1>4, <1>5, <1>6, <2>1, RamSizeAssumption
  <2>. QED
    BY <1>1, <2>1, <2>2, FailedStep
<1>. QED
  BY <1>8, <1>9

LEMMA DupStep ==
  ASSUME StackInv, StackInv', NEW t \in Flavours, Dup(t)
  PROVE  StackStep
<1> DEFINE down == Moved(- Size[t])
           from == InRam(cpu[SP])
           cell == InRam(down[SP])
           v    == Load(t, from)
           copy == Written(t, cell, v, [regs |-> down, ram |-> ram])
           next == Written(t, ArgPop(down), v, copy)
<1>1. status = "running"
  BY DEF Dup, Executes
<1>2. /\ ArgPop(down) \in Location /\ ArgPop(down).kind \notin {"imm", "ram"}
      /\ ArgPop(down) # InReg(SP) /\ [regs |-> down, ram |-> ram] \in MachineType
      /\ from \in Location /\ cell \in Location /\ cell.kind = "ram"
  BY MovedMachine, PopsToRegister, StackCells DEF StackInv, InRam
<1>3. Perform(t, <<from, cell, ArgPop(down)>>, next, pc + 1, <<>>)
  BY DEF Dup
<1>4. /\ Access(t, cell) = IF Size[t] <= sp THEN "running" ELSE "access_violation"
      /\ Size[t] <= sp => /\ copy.regs[SP] = sp - Size[t]
                          /\ \A c \in Cell : sp <= c => copy.ram[c] = ram[c]
      /\ Access(t, from) = IF sp + Size[t] < RamSize THEN "running" ELSE "access_violation"
  BY SpType, DownCases, UpCases, StoredBelowTop
<1>5. Size[t] \in {1, 4} /\ sp \in Nat
  BY SizeType, SpType
<1>6. Access(t, from) = "running" => v \in Value(t)
  BY <1>2, LoadType DEF StackInv
<1> HIDE DEF down, from, cell, v
<1>7. Access(t, from) = "running" /\ Access(t, cell) = "running" => copy \in MachineType
  BY <1>2, <1>6, WrittenType
<1> HIDE DEF copy
<1>8. Access(t, ArgPop(down)) # "access_violation"
  BY <1>2, OtherAccess
<1>9. CASE /\ Access(t, from) = "running" /\ Access(t, cell) = "running"
           /\ Access(t, ArgPop(down)) = "running"
  <2>1. ArgPop(down).kind # "wild"
    BY <1>9 DEF Access
  <2>2. next.ram = copy.ram /\ next.regs[SP] = copy.regs[SP]
    BY <1>2, <1>7, <1>9, <2>1, WrittenKeepsSp, WrittenKeepsRam
  <2> HIDE DEF next
  <2>3. regs' = next.regs /\ ram' = next.ram /\ status' = status
    BY <1>3, <1>9, PerformCases
  <2>4. Stack!Push(Size[t])
    BY <1>1, <1>4, <1>5, <1>9, <2>2, <2>3, Pushed
  <2>. QED
    BY <1>5, <2>4 DEF StackStep, Stack!Next, Stack!Width
<1>10. CASE ~ (/\ Access(t, from) = "running" /\ Access(t, cell) = "running"
               /\ Access(t, ArgPop(down)) = "running")
  <2> HIDE DEF next
  <2>1. /\ regs' = regs /\ ram' = ram
        /\ status' \in {Access(t, from), Access(t, cell), Access(t, ArgPop(down))}
    BY <1>3, <1>10, PerformCases
  <2>2. status' = "access_violation" => sp < Size[t] \/ sp + Size[t] >= RamSize
    BY <1>4, <1>5, <1>8, <2>1, RamSizeAssumption
  <2>. QED
    BY <1>1, <2>1, <2>2, FailedStep
<1>. QED
  BY <1>9, <1>10

-----------------------------------------------------------------------------
LEMMA StepIsStackStep ==
  ASSUME StackInv, StackInv', [Next]_vars
  PROVE  StackStep
<1>1. CASE Noop \/ Jmp \/ Call \/ Ret
  BY <1>1, ControlQuiet, QuietStep
<1>2. CASE \E t \in Flavours : If(t) \/ Ife(t)
  BY <1>2, BranchQuiet, QuietStep
<1>3. CASE (\E t \in Flavours : PrintNumber(t)) \/ PrintC
  BY <1>3, PrintQuiet, QuietStep
<1>4. ASSUME NEW t \in Flavours, Mov(t) \/ Ldc(t) \/ Ldca \/ (t # "B" /\ Add(t))
      PROVE  StackStep
  BY <1>4, MoveQuiet, QuietStep
<1>5. ASSUME NEW t \in Flavours, Push(t) \/ Pop(t) \/ Dup(t)
      PROVE  StackStep
  BY <1>5, PushStep, PopStep, DupStep
<1>6. CASE AddTraps \/ UnknownOpcode \/ Halt \/ Ended \/ UNCHANGED vars
  BY <1>6, Unnoticed DEF AddTraps, Executes, UnknownOpcode, Halt, Ended, vars, StackStep, sp
<1>. QED
  BY <1>1, <1>2, <1>3, <1>4, <1>5, <1>6 DEF Next, Step, Flavours

LEMMA InitStack == Init /\ StackOnly(code) => StackInv /\ Stack!Init
<1> SUFFICES ASSUME Init, StackOnly(code) PROVE StackInv /\ Stack!Init
  OBVIOUS
<1>1. regs[SP] = RamSize - 1
  BY NumRegsAssumption DEF Init, SP, H, Reg
<1>2. StackInv
  <2>1. TypeOK
    BY InitType
  <2>. QED
    BY <1>1, <2>1, RamSizeAssumption DEF StackInv, sp
<1>3. StackBytes = <<>>
  BY <1>1, <1>2, StackBytesType, RamSizeAssumption DEF BytesFromSp, sp
<1>. QED
  BY <1>2, <1>3 DEF Init, Stack!Init

(* In programs that reach the RAM through the stack only, whatever the     *)
(* sizes of the byte, the RAM and the stack: pushes, pops and duplications *)
(* are operations on one bounded last-in first-out stack of bytes, and the *)
(* access check alone ends exactly those that overflow or underflow it.    *)
THEOREM StackImplemented ==
  ASSUME \A p \in Programs : StackOnly(p)
  PROVE  Spec => ImplementsByteStack
<1>1. Init => StackOnly(code)
  BY DEF Init
<1>2. StackOnly(code) /\ [Next]_vars => StackOnly(code)'
  BY CodeIsConstant
<1>3. TypeOK /\ StackOnly(code) /\ StackPointerInRam => StackInv
  BY DEF StackInv, StackOnly, StackPointerInRam, sp
<1>4. Init => Stack!Init
  BY <1>1, InitStack
<1>5. StackInv /\ StackInv' /\ [Next]_vars => StackStep
  BY StepIsStackStep
<1>. QED
  BY <1>1, <1>2, <1>3, <1>4, <1>5, TypeCorrect, StackPointerSafe, PTL
     DEF Spec, ImplementsByteStack, Stack!Spec, StackStep

-----------------------------------------------------------------------------
-----------------------------------------------------------------------------
(* What an instruction that is carried out does to $sp, to $r, to the part *)
(* of the RAM above $sp and to pc.                                         *)
Between == SpInRam /\ StoresOnlyByPush(code)

StepEffect ==
  /\ pc < Len(code.instrs)
  /\ regs'[SP] = sp - Grows(instr)
  /\ \A c \in Cell : sp <= c => ram'[c] = ram[c]
  /\ OPCODE(instr) = CALL => pc' = ARG_JMP_VALUE(instr) /\ regs'[R] = (pc + 1) % WordSize
  /\ OPCODE(instr) = RET => pc' = regs[R]
  /\ OPCODE(instr) \notin {CALL, RET} => pc' \in Successors(instr, pc)
  /\ OPCODE(instr) # CALL /\ ~ NamesDest(instr, R) => regs'[R] = regs[R]
  /\ Saves(instr) => sp >= 4 /\ ReadInt32(ram', sp - 4) = regs[R]
  /\ Restores(instr) => regs'[R] = ReadInt32(ram, sp)

LEMMA Done ==
  ASSUME NEW t, NEW accesses, NEW m, NEW target, NEW printed,
         Perform(t, accesses, m, target, printed), status' = "running"
  PROVE  /\ \A k \in DOMAIN accesses : Access(t, accesses[k]) = "running"
         /\ regs' = m.regs /\ ram' = m.ram /\ pc' = target
BY PerformCases

LEMMA ReturnRegister ==
  TypeOK => R \in Reg /\ R # SP /\ R # PC /\ regs[R] \in Word /\ cpu[R] = regs[R]
BY NumRegsAssumption DEF TypeOK, SP, PC, R, Reg, cpu

LEMMA BetweenTypes ==
  Between => /\ TypeOK /\ LeavesSpAlone(code) /\ StoresOnlyByPush(code) /\ SpInRam
             /\ sp \in Nat /\ sp < RamSize /\ cpu[SP] = sp
BY TopType, RamSizeAssumption DEF Between, SpInRam, StoresOnlyByPush

(* The opcodes that only move pc.                                          *)
LEMMA OffStack ==
  ASSUME OPCODE(instr) \in Int, OPCODE(instr) \notin PUSHI .. DUPI + 2
  PROVE  Grows(instr) = 0 /\ ~ Saves(instr) /\ ~ Restores(instr)
BY DEF Grows, Saves, Restores, PUSHI, POPI, DUPI

LEMMA StraightOn ==
  ASSUME OPCODE(instr) \in Int, OPCODE(instr) \notin IFI .. JMP
  PROVE  Successors(instr, pc) = {pc + 1}
BY DEF Successors, IFI, IFEI, JMP

LEMMA ControlEffect ==
  ASSUME Between, Noop \/ Jmp \/ Call \/ Ret, status' = "running"
  PROVE  StepEffect
<1>1. pc < Len(code.instrs) /\ OPCODE(instr) \in {NOOP, JMP, CALL, RET}
  BY DEF Noop, Jmp, Call, Ret, Executes
<1>2. Grows(instr) = 0 /\ ~ Saves(instr) /\ ~ Restores(instr)
  BY <1>1, OffStack DEF NOOP, JMP, CALL, RET, PUSHI, DUPI
<1>3. /\ cpu \in Registers /\ cpu[SP] = sp /\ cpu[R] = regs[R] /\ R \in Reg /\ SP \in Reg /\ R # SP
  BY BetweenTypes, CpuType, ReturnRegister, SpIsAnotherRegister
<1>4. \A c, target : Goto(c, target) => regs' = c /\ ram' = ram /\ pc' = target
  <2> SUFFICES ASSUME NEW c, NEW target, Goto(c, target)
               PROVE  regs' = c /\ ram' = ram /\ pc' = target
    OBVIOUS
  <2> DEFINE m == [Machine EXCEPT !.regs = c]
  <2>1. m.regs = c /\ m.ram = ram /\ Perform("I", <<>>, m, target, <<>>)
    BY DEF Goto, Machine
  <2> HIDE DEF m
  <2>. QED
    BY <2>1, Done
<1>5. sp - 0 = sp
  BY BetweenTypes
<1>6. CASE Noop
  <2>1. OPCODE(instr) = NOOP /\ Goto(cpu, pc + 1)
    BY <1>6 DEF Noop, Executes
  <2>2. pc + 1 \in Successors(instr, pc)
    BY <2>1, StraightOn DEF NOOP, IFI, JMP
  <2>. QED
    BY <1>1, <1>2, <1>3, <1>4, <1>5, <2>1, <2>2 DEF StepEffect, NOOP, CALL, RET
<1>7. CASE Jmp
  <2>1. OPCODE(instr) = JMP /\ Goto(cpu, ARG_JMP_VALUE(instr))
    BY <1>7 DEF Jmp, Executes
  <2>2. ARG_JMP_VALUE(instr) \in Successors(instr, pc)
    BY <2>1 DEF Successors
  <2>. QED
    BY <1>1, <1>2, <1>3, <1>4, <1>5, <2>1, <2>2 DEF StepEffect, JMP, CALL, RET
<1>8. CASE Call
  <2> DEFINE c == [cpu EXCEPT ![R] = (pc + 1) % WordSize]
  <2>1. OPCODE(instr) = CALL /\ Goto(c, ARG_JMP_VALUE(instr))
    BY <1>8 DEF Call, Executes
  <2>2. c[R] = (pc + 1) % WordSize /\ c[SP] = sp
    BY <1>3 DEF Registers
  <2> HIDE DEF c
  <2>. QED
    BY <1>1, <1>2, <1>4, <1>5, <2>1, <2>2 DEF StepEffect, CALL, RET
<1>9. CASE Ret
  <2>1. OPCODE(instr) = RET /\ Goto(cpu, regs[R])
    BY <1>3, <1>9 DEF Ret, Executes
  <2>. QED
    BY <1>1, <1>2, <1>3, <1>4, <1>5, <2>1 DEF StepEffect, CALL, RET
<1>. QED
  BY <1>6, <1>7, <1>8, <1>9

LEMMA BranchEffect ==
  ASSUME Between, NEW t \in Flavours, If(t) \/ Ife(t), status' = "running"
  PROVE  StepEffect
<1>1. /\ pc < Len(code.instrs)
      /\ OPCODE(instr) \in IFI .. IFEI + 2
  BY FlavourType DEF If, Ife, Executes, IFI, IFEI
<1>2. Grows(instr) = 0 /\ ~ Saves(instr) /\ ~ Restores(instr)
  BY <1>1, OffStack DEF IFI, IFEI, PUSHI, DUPI
<1>3. OPCODE(instr) \notin {JMP, CALL, RET}
  BY <1>1 DEF IFI, IFEI, JMP, CALL, RET
<1>4. PICK target \in {pc + 1, pc + 2} : Perform(t, <<Arg2(t), Arg1>>, Machine, target, <<>>)
  BY DEF If, Ife
<1>5. regs' = cpu /\ ram' = ram /\ pc' = target
  BY <1>4, Done DEF Machine
<1>6. target \in Successors(instr, pc)
  BY <1>1, <1>3, <1>4 DEF Successors
<1>7. cpu[SP] = sp - 0 /\ cpu[R] = regs[R]
  BY BetweenTypes, ReturnRegister
<1>. QED
  BY <1>1, <1>2, <1>3, <1>5, <1>6, <1>7 DEF StepEffect

LEMMA PrintEffect ==
  ASSUME Between, NEW t \in Flavours, PrintNumber(t) \/ PrintC, status' = "running"
  PROVE  StepEffect
<1>1. pc < Len(code.instrs) /\ OPCODE(instr) \in PRINTI .. PRINTC
  BY FlavourType DEF PrintNumber, PrintC, Executes, PRINTI, PRINTC
<1>2. Grows(instr) = 0 /\ ~ Saves(instr) /\ ~ Restores(instr) /\ Successors(instr, pc) = {pc + 1}
  BY <1>1, OffStack, StraightOn, SMTT(30) DEF PRINTI, PRINTC, PUSHI, DUPI, IFI, JMP
<1>3. OPCODE(instr) \notin {CALL, RET}
  BY <1>1 DEF PRINTI, PRINTC, CALL, RET
<1>4. PICK u, accesses, printed : Perform(u, accesses, Machine, pc + 1, printed)
  BY DEF PrintNumber, PrintC
<1>5. regs' = cpu /\ ram' = ram /\ pc' = pc + 1
  BY <1>4, Done DEF Machine
<1>6. cpu[SP] = sp - 0 /\ cpu[R] = regs[R]
  BY BetweenTypes, ReturnRegister
<1>. QED
  BY <1>1, <1>2, <1>3, <1>5, <1>6 DEF StepEffect

(* The instructions that write a register.                                 *)
LEMMA WrittenKeepsRegister ==
  ASSUME NEW t \in Flavours, NEW loc \in Location, NEW r \in Reg, loc # InReg(r),
         loc.kind # "wild", loc.kind # "imm", NEW v, NEW m \in MachineType
  PROVE  Written(t, loc, v, m).regs[r] = m.regs[r]
<1>1. CASE loc.kind = "ram"
  BY <1>1 DEF Written, MachineType
<1>2. CASE loc.kind = "reg"
  <2>1. loc.at # r /\ loc.at \in Reg /\ m.regs \in Registers
    BY <1>2 DEF Location, InReg, MachineType
  <2>. QED
    BY <1>2, <2>1 DEF Written, MachineType, Registers
<1>. QED
  BY <1>1, <1>2 DEF Location

LEMMA DestinationNotNamed ==
  ASSUME NEW r, ~ NamesDest(instr, r)
  PROVE  /\ WritesArg1(instr) => Arg1 # InReg(r)
         /\ PopsOrDups(instr) => \A c : ArgPop(c) # InReg(r)
<1>1. \A isAddr, n, c : Indirect(isAddr, n, c) = InReg(r) => ~ isAddr /\ n = r
  BY DEF Indirect, InReg, InRam, Wild
<1>. QED
  BY <1>1 DEF NamesDest, Arg1, ArgPop

LEMMA WriteArg1Effect ==
  ASSUME Between, pc < Len(code.instrs), WritesArg1(instr), status' = "running",
         NEW t \in Flavours, NEW accesses, NEW v,
         \E k \in DOMAIN accesses : accesses[k] = Arg1,
         Perform(t, accesses, Written(t, Arg1, v, Machine), pc + 1, <<>>)
  PROVE  StepEffect
<1> DEFINE next == Written(t, Arg1, v, Machine)
<1>1. TypeOK /\ LeavesSpAlone(code) /\ StoresOnlyByPush(code) /\ cpu[SP] = sp - 0
  BY BetweenTypes
<1>2. OPCODE(instr) \in MOVI .. LDCA \cup (ADDI .. ADDI + 1)
  BY DEF WritesArg1
<1>3. Grows(instr) = 0 /\ ~ Saves(instr) /\ ~ Restores(instr) /\ Successors(instr, pc) = {pc + 1}
  <2>1. OPCODE(instr) \in Int /\ OPCODE(instr) \notin PUSHI .. DUPI + 2 /\ OPCODE(instr) \notin IFI .. JMP
    BY <1>2 DEF MOVI, LDCA, ADDI, PUSHI, DUPI, IFI, JMP
  <2>. QED
    BY <2>1, OffStack, StraightOn
<1>4. OPCODE(instr) \notin {CALL, RET}
  BY <1>2 DEF MOVI, LDCA, ADDI, CALL, RET
<1>5. Access(t, Arg1) = "running" /\ regs' = next.regs /\ ram' = next.ram /\ pc' = pc + 1
  <2> HIDE DEF next
  <2>. QED
    BY Done DEF next
<1>6. /\ Arg1 \in Location /\ Arg1.kind # "imm" /\ Arg1.kind # "wild" /\ Arg1.kind # "ram"
      /\ Arg1 # InReg(SP)
  BY <1>1, <1>5, OperandTypes, DestinationIsNotSp, DestinationIsNotRam DEF Access
<1>7. Machine \in MachineType /\ Machine.regs = cpu /\ Machine.ram = ram
  BY <1>1, MachineIsTyped DEF Machine
<1>8. next.ram = ram
  BY <1>6, <1>7, WrittenKeepsRam
<1>9. next.regs[SP] = sp - 0
  BY <1>1, <1>6, <1>7, WrittenKeepsSp
<1>10. ~ NamesDest(instr, R) => next.regs[R] = regs[R]
  BY <1>1, <1>6, <1>7, ReturnRegister, DestinationNotNamed, WrittenKeepsRegister
<1> HIDE DEF next
<1>. QED
  BY <1>3, <1>4, <1>5, <1>8, <1>9, <1>10 DEF StepEffect

LEMMA MoveEffect ==
  ASSUME Between, NEW t \in Flavours, Mov(t) \/ Ldc(t) \/ Ldca \/ (t # "B" /\ Add(t)),
         status' = "running"
  PROVE  StepEffect
<1>1. WritesArg1(instr) /\ pc < Len(code.instrs)
  <2>1. Flavour[t] \in 0 .. 2 /\ (t # "B" => Flavour[t] \in 0 .. 1)
    BY FlavourType DEF Flavours
  <2>. QED
    BY <2>1 DEF Mov, Ldc, Ldca, Add, Executes, WritesArg1, MOVI, LDCI, LDCA, ADDI
<1>2. PICK u, accesses, v :
        /\ u \in Flavours /\ \E k \in DOMAIN accesses : accesses[k] = Arg1
        /\ Perform(u, accesses, Written(u, Arg1, v, Machine), pc + 1, <<>>)
  <2>1. \A x, y : \E k \in DOMAIN <<x, y>> : <<x, y>>[k] = y
    OBVIOUS
  <2>2. \A x, y : \E k \in DOMAIN <<y, x, y>> : <<y, x, y>>[k] = y
    OBVIOUS
  <2>. QED
    BY <2>1, <2>2 DEF Mov, Ldc, Ldca, Add, Flavours
<1>. QED
  BY <1>1, <1>2, WriteArg1Effect

-----------------------------------------------------------------------------
(* The stack instructions.                                                 *)
LEMMA StackOpcodes ==
  ASSUME NEW t \in Flavours
  PROVE  /\ OPCODE(instr) \in {PUSHI + Flavour[t], DUPI + Flavour[t]} => Grows(instr) = Size[t]
         /\ OPCODE(instr) = POPI + Flavour[t] => Grows(instr) = - Size[t]
         /\ OPCODE(instr) \in {PUSHI + Flavour[t], POPI + Flavour[t], DUPI + Flavour[t]} =>
              /\ OPCODE(instr) \notin {CALL, RET} /\ Successors(instr, pc) = {pc + 1}
              /\ Saves(instr) => t = "I" /\ OPCODE(instr) = PUSHI
              /\ Restores(instr) => t = "I" /\ OPCODE(instr) = POPI
<1>1. Flavour[t] = (IF t = "I" THEN 0 ELSE IF t = "F" THEN 1 ELSE 2) /\ t \in {"I", "F", "B"}
  BY FlavourType DEF Flavours
<1>2. Size[t] = IF t = "B" THEN 1 ELSE 4
  BY SizeType
<1>. QED
  BY <1>1, <1>2 DEF Grows, Successors, Saves, Restores, PUSHI, POPI, DUPI, CALL, RET, IFI, IFEI, JMP

(* The machine after v was stored below a $sp with room for it.            *)
LEMMA PushedEffect ==
  ASSUME Between, NEW t \in Flavours, NEW v, Access(t, InRam(Moved(- Size[t])[SP])) = "running"
  PROVE  LET top  == Moved(- Size[t])
             next == Written(t, InRam(top[SP]), v, [regs |-> top, ram |-> ram])
         IN  /\ Size[t] <= sp /\ top[SP] = sp - Size[t] /\ top[R] = regs[R]
             /\ top \in Registers
             /\ next.regs = top /\ next.ram = StoreRam(t, ram, sp - Size[t], v)
             /\ \A c \in Cell : sp <= c => next.ram[c] = ram[c]
<1> DEFINE top  == Moved(- Size[t])
           next == Written(t, InRam(top[SP]), v, [regs |-> top, ram |-> ram])
<1>1. SpInRam /\ TypeOK /\ sp \in Nat /\ Size[t] \in Nat /\ - Size[t] \in Int
  BY BetweenTypes, SizeType
<1>2. Size[t] <= sp /\ top[SP] = sp - Size[t]
  BY <1>1, DownCases
<1>3. top \in Registers /\ top[R] = regs[R]
  BY <1>1, MovedType, CpuType, ReturnRegister DEF Moved, Registers
<1>4. next.regs = top /\ next.ram = StoreRam(t, ram, sp - Size[t], v)
  BY <1>2 DEF Written, InRam
<1>5. \A c \in Cell : sp <= c => next.ram[c] = ram[c]
  BY <1>1, <1>2, StoredBelowTop
<1>. QED
  BY <1>2, <1>3, <1>4, <1>5

LEMMA PushEffect ==
  ASSUME Between, NEW t \in Flavours, Push(t), status' = "running"
  PROVE  StepEffect
<1> DEFINE top  == Moved(- Size[t])
           v    == Load(t, Arg2(t))
           next == Written(t, InRam(top[SP]), v, [regs |-> top, ram |-> ram])
<1>1. /\ pc < Len(code.instrs) /\ OPCODE(instr) = PUSHI + Flavour[t]
      /\ Perform(t, <<Arg2(t), InRam(top[SP])>>, next, pc + 1, <<>>)
  BY DEF Push, Executes
<1>2. /\ Access(t, InRam(top[SP])) = "running"
      /\ regs' = next.regs /\ ram' = next.ram /\ pc' = pc + 1
  <2> HIDE DEF next, top
  <2>. QED
    BY <1>1, Done
<1>3. /\ Size[t] <= sp /\ top[SP] = sp - Size[t] /\ top[R] = regs[R]
      /\ next.regs = top /\ next.ram = StoreRam(t, ram, sp - Size[t], v)
      /\ \A c \in Cell : sp <= c => next.ram[c] = ram[c]
  BY <1>2, PushedEffect
<1>4. Saves(instr) => sp >= 4 /\ ReadInt32(next.ram, sp - 4) = regs[R]
  <2> SUFFICES ASSUME Saves(instr) PROVE sp >= 4 /\ ReadInt32(next.ram, sp - 4) = regs[R]
    OBVIOUS
  <2>1. t = "I" /\ Size[t] = 4
    BY <1>1, StackOpcodes, SizeType
  <2>2. /\ TypeOK /\ sp \in Nat /\ sp < RamSize /\ R \in Reg /\ regs[R] \in Word /\ cpu[R] = regs[R]
    BY BetweenTypes, ReturnRegister
  <2>3. Arg2("I") = InReg(R)
    BY <2>2 DEF Saves, Arg2, Indirect
  <2>4. v = regs[R]
    <3>1. v = regs[R] % WordSize
      BY <2>1, <2>2, <2>3 DEF Load, InReg, Truncate
    <3>. QED
      BY <2>2, <3>1, WordSizeType DEF Word
  <2>5. next.ram = StoreInt32(ram, sp - 4, regs[R])
    BY <1>3, <2>1, <2>4 DEF StoreRam
  <2>6. sp - 4 \in Nat /\ InAllocation(sp - 4, 4)
    BY <1>3, <2>1, <2>2, RamSizeAssumption DEF InAllocation
  <2> HIDE DEF next
  <2>. QED
    BY <2>2, <2>5, <2>6, StoredWordIsRead
<1>5. /\ Grows(instr) = Size[t] /\ OPCODE(instr) \notin {CALL, RET} /\ Successors(instr, pc) = {pc + 1}
      /\ ~ Restores(instr)
  BY <1>1, StackOpcodes, FlavourType DEF Restores, PUSHI, POPI, Flavours
<1> HIDE DEF top, next
<1>. QED
  BY <1>1, <1>2, <1>3, <1>4, <1>5 DEF StepEffect
LEMMA PopsOrDupsTo ==
  ASSUME Between, NEW t \in Flavours, Pop(t) \/ Dup(t)
  PROVE  /\ pc < Len(code.instrs) /\ PopsOrDups(instr)
         /\ \A c \in Registers :
              /\ ArgPop(c) \in Location /\ ArgPop(c).kind \notin {"imm", "ram"}
              /\ ArgPop(c) # InReg(SP)
              /\ ~ NamesDest(instr, R) => ArgPop(c) # InReg(R)
<1>1. pc < Len(code.instrs) /\ PopsOrDups(instr)
  BY OperandsOfOpcodes DEF Pop, Dup, Executes
<1>. QED
  BY <1>1, BetweenTypes, OperandTypes, DestinationIsNotSp, DestinationIsNotRam, DestinationNotNamed

LEMMA PopEffect ==
  ASSUME Between, NEW t \in Flavours, Pop(t), status' = "running"
  PROVE  StepEffect
<1> DEFINE top  == Moved(Size[t])
           from == InRam(cpu[SP])
           v    == Load(t, from)
           m    == [regs |-> top, ram |-> ram]
           next == Written(t, ArgPop(top), v, m)
<1>1. /\ pc < Len(code.instrs) /\ OPCODE(instr) = POPI + Flavour[t]
      /\ Perform(t, <<from, ArgPop(top)>>, next, pc + 1, <<>>)
  BY DEF Pop, Executes
<1>2. /\ Access(t, from) = "running" /\ Access(t, ArgPop(top)) = "running"
      /\ regs' = next.regs /\ ram' = next.ram /\ pc' = pc + 1
  <2> HIDE DEF next, top, from
  <2>. QED
    BY <1>1, Done
<1>3. /\ SpInRam /\ TypeOK /\ sp \in Nat /\ sp < RamSize /\ cpu[SP] = sp /\ Size[t] \in Nat
      /\ R \in Reg /\ SP \in Reg /\ R # SP /\ regs[R] \in Word /\ cpu[R] = regs[R]
  BY BetweenTypes, ReturnRegister, SpIsAnotherRegister, SizeType
<1>4. top[SP] = sp + Size[t]
  BY <1>2, <1>3, UpCases
<1>5. top \in Registers /\ top[R] = regs[R]
  <2>1. Size[t] \in Int
    BY <1>3
  <2>. QED
    BY <1>3, <2>1, MovedType, CpuType DEF Moved, Registers
<1>6. m \in MachineType /\ m.regs = top /\ m.ram = ram
  BY <1>3, <1>5 DEF MachineType, TypeOK, Memory
<1> HIDE DEF top, m
<1>7. /\ ArgPop(top) \in Location /\ ArgPop(top).kind \notin {"imm", "ram", "wild"}
      /\ ArgPop(top) # InReg(SP) /\ (~ NamesDest(instr, R) => ArgPop(top) # InReg(R))
  BY <1>2, <1>5, PopsOrDupsTo DEF Access
<1>8. next.ram = ram /\ next.regs[SP] = sp + Size[t]
  BY <1>4, <1>6, <1>7, WrittenKeepsRam, WrittenKeepsSp
<1>9. ~ NamesDest(instr, R) => next.regs[R] = regs[R]
  BY <1>3, <1>5, <1>6, <1>7, WrittenKeepsRegister
<1>10. Restores(instr) => next.regs[R] = ReadInt32(ram, sp)
  <2> SUFFICES ASSUME Restores(instr) PROVE next.regs[R] = ReadInt32(ram, sp)
    OBVIOUS
  <2>1. t = "I"
    BY <1>1, StackOpcodes
  <2>2. ArgPop(top) = InReg(R)
    BY <1>3 DEF Restores, ArgPop, Indirect
  <2>3. v = ReadInt32(ram, sp)
    BY <1>3, <2>1 DEF Load, InRam
  <2>. QED
    BY <1>3, <1>5, <1>6, <2>1, <2>2, <2>3 DEF Written, InReg, Registers
<1>11. /\ Grows(instr) = - Size[t] /\ OPCODE(instr) \notin {CALL, RET}
       /\ Successors(instr, pc) = {pc + 1} /\ ~ Saves(instr)
  BY <1>1, StackOpcodes, FlavourType DEF Saves, PUSHI, POPI, Flavours
<1>12. sp + Size[t] = sp - (- Size[t])
  BY <1>3
<1> HIDE DEF next
<1>. QED
  BY <1>1, <1>2, <1>8, <1>9, <1>10, <1>11, <1>12 DEF StepEffect

LEMMA DupEffect ==
  ASSUME Between, NEW t \in Flavours, Dup(t), status' = "running"
  PROVE  StepEffect
<1> DEFINE top  == Moved(- Size[t])
           from == InRam(cpu[SP])
           cell == InRam(top[SP])
           v    == Load(t, from)
           copy == Written(t, cell, v, [regs |-> top, ram |-> ram])
           next == Written(t, ArgPop(top), v, copy)
<1>1. /\ pc < Len(code.instrs) /\ OPCODE(instr) = DUPI + Flavour[t]
      /\ Perform(t, <<from, cell, ArgPop(top)>>, next, pc + 1, <<>>)
  BY DEF Dup, Executes
<1>2. /\ Access(t, from) = "running" /\ Access(t, cell) = "running"
      /\ Access(t, ArgPop(top)) = "running"
      /\ regs' = next.regs /\ ram' = next.ram /\ pc' = pc + 1
  <2> HIDE DEF next, top, from, cell
  <2>. QED
    BY <1>1, Done
<1>3. TypeOK /\ R \in Reg /\ - Size[t] \in Int
  BY BetweenTypes, ReturnRegister, SizeType
<1>4. /\ top[SP] = sp - Size[t] /\ top[R] = regs[R] /\ top \in Registers
      /\ copy.regs = top
      /\ \A c \in Cell : sp <= c => copy.ram[c] = ram[c]
  BY <1>2, PushedEffect
<1>5. copy \in MachineType
  <2>1. from \in Location /\ cell \in Location /\ cell.kind # "imm"
    BY <1>3, StackCells DEF InRam
  <2>2. v \in Value(t)
    BY <1>2, <1>3, <2>1, LoadType
  <2>3. [regs |-> top, ram |-> ram] \in MachineType
    BY <1>3, <1>4 DEF MachineType, TypeOK, Memory
  <2> HIDE DEF top, from, cell, v
  <2>. QED
    BY <1>2, <2>1, <2>2, <2>3, WrittenType
<1> HIDE DEF top, cell, copy
<1>6. /\ ArgPop(top) \in Location /\ ArgPop(top).kind \notin {"imm", "ram", "wild"}
      /\ ArgPop(top) # InReg(SP) /\ (~ NamesDest(instr, R) => ArgPop(top) # InReg(R))
  BY <1>2, <1>4, PopsOrDupsTo DEF Access
<1>7. next.ram = copy.ram /\ next.regs[SP] = sp - Size[t]
  BY <1>4, <1>5, <1>6, WrittenKeepsRam, WrittenKeepsSp
<1>8. ~ NamesDest(instr, R) => next.regs[R] = regs[R]
  BY <1>3, <1>4, <1>5, <1>6, WrittenKeepsRegister
<1>9. /\ Grows(instr) = Size[t] /\ OPCODE(instr) \notin {CALL, RET}
      /\ Successors(instr, pc) = {pc + 1} /\ ~ Saves(instr) /\ ~ Restores(instr)
  BY <1>1, StackOpcodes, FlavourType DEF Saves, Restores, PUSHI, POPI, DUPI, Flavours
<1> HIDE DEF next
<1>. QED
  BY <1>1, <1>2, <1>4, <1>7, <1>8, <1>9 DEF StepEffect

LEMMA StepHasEffect ==
  ASSUME Between, Step, status' = "running"
  PROVE  StepEffect
<1>1. CASE Noop \/ Jmp \/ Call \/ Ret
  BY <1>1, ControlEffect
<1>2. ASSUME NEW t \in Flavours, If(t) \/ Ife(t)
      PROVE  StepEffect
  BY <1>2, BranchEffect
<1>3. ASSUME NEW t \in Flavours, PrintNumber(t) \/ PrintC
      PROVE  StepEffect
  BY <1>3, PrintEffect
<1>4. ASSUME NEW t \in Flavours, Mov(t) \/ Ldc(t) \/ Ldca \/ (t # "B" /\ Add(t))
      PROVE  StepEffect
  BY <1>4, MoveEffect
<1>5. ASSUME NEW t \in Flavours, Push(t) \/ Pop(t) \/ Dup(t)
      PROVE  StepEffect
  BY <1>5, PushEffect, PopEffect, DupEffect
<1>6. CASE AddTraps \/ UnknownOpcode \/ Halt
  BY <1>6 DEF AddTraps, UnknownOpcode, Halt
<1>. QED
  BY <1>1, <1>2, <1>3, <1>4, <1>5, <1>6 DEF Step, Flavours

-----------------------------------------------------------------------------
(* The inductive invariant.  While the program runs, the note of the next  *)
(* instruction tells the truth about the innermost call, and every other   *)
(* call waits at an instruction whose note will tell the truth when it is  *)
(* returned to.  The saved addresses lie above one another on the stack.   *)
Frame == [to : Nat, sp : Cell]

Here(note) == NoteAt(code, note, pc)

KeepsAddress(k) == ReadInt32(ram, frames[k].sp - 4) = frames[k].to

Innermost(note) ==
  /\ frames = <<>> => Here(note) = InMain
  /\ frames # <<>> =>
       /\ Here(note).depth \in Nat /\ frames[1].sp = sp + Here(note).depth
       /\ \/ Here(note) = Entered(Here(note).depth) /\ regs[R] = frames[1].to
          \/ Here(note) = Saved(Here(note).depth) /\ Here(note).depth >= 4 /\ KeepsAddress(1)

Nested ==
  \A k \in 2 .. Len(frames) :
    KeepsAddress(k) /\ \A j \in 1 .. k - 1 : frames[j].sp <= frames[k].sp - 4

Awaited(note) ==
  \A k \in 1 .. Len(frames) :
    NoteAt(code, note, frames[k].to) =
      IF k = Len(frames) THEN InMain ELSE Saved(frames[k + 1].sp - frames[k].sp)

Framed(note) ==
  Convention(code, note) /\ frames \in Seq(Frame) /\ Innermost(note) /\ Nested /\ Awaited(note)

CallInv ==
  /\ status = "running" => \E note : Framed(note)
  /\ status = "exited" => frames = <<>>

LEMMA NotesDiffer ==
  \A d, e : /\ InMain # Entered(d) /\ InMain # Saved(d) /\ Entered(d) # Saved(e)
            /\ Unreached # InMain /\ Unreached # Entered(d) /\ Unreached # Saved(d)
            /\ (Entered(d) = Entered(e) => d = e) /\ (Saved(d) = Saved(e) => d = e)
            /\ Entered(d).depth = d /\ Saved(d).depth = d /\ InMain.depth = 0
BY DEF InMain, Entered, Saved, Unreached

LEMMA ConventionBetween ==
  ASSUME TypeOK, StackPointerInRam, NEW note, Convention(code, note)
  PROVE  Between
BY DEF Between, SpInRam, StackPointerInRam, Convention, StoresOnlyByPush, sp

LEMMA FrameFacts ==
  ASSUME TypeOK, StackPointerInRam, NEW note, Framed(note)
  PROVE  /\ Between /\ sp \in Nat /\ sp < RamSize
         /\ Len(frames) \in Nat /\ (frames = <<>> <=> Len(frames) = 0)
         /\ \A k \in 1 .. Len(frames) : /\ frames[k].to \in Nat
                                        /\ frames[k].sp \in Nat /\ frames[k].sp < RamSize
         /\ pc < Len(code.instrs) => Here(note) = note[pc] /\ Conforms(code, note, pc)
         /\ pc >= Len(code.instrs) => Here(note) = InMain
<1>1. Between
  BY ConventionBetween DEF Framed
<1>2. sp \in Nat /\ sp < RamSize
  BY <1>1, BetweenTypes
<1>3. frames \in Seq(Frame)
  BY DEF Framed
<1>4. Len(frames) \in Nat /\ (frames = <<>> <=> Len(frames) = 0)
  BY <1>3
<1>5. \A k \in 1 .. Len(frames) : /\ frames[k].to \in Nat
                                  /\ frames[k].sp \in Nat /\ frames[k].sp < RamSize
  <2>1. \A k \in 1 .. Len(frames) : frames[k] \in Frame
    BY <1>3
  <2>. QED
    BY <2>1, RamSizeAssumption DEF Frame, Cell
<1>6. pc \in Nat /\ Len(code.instrs) \in Nat
  BY DEF TypeOK, Program
<1>7. ASSUME pc < Len(code.instrs)
      PROVE  Here(note) = note[pc] /\ Conforms(code, note, pc)
  <2>1. Here(note) = note[pc] /\ pc \in DOMAIN note
    BY <1>6, <1>7 DEF Here, NoteAt, Framed, Convention
  <2>2. Here(note) # Unreached
    BY NotesDiffer DEF Framed, Innermost
  <2>. QED
    BY <2>1, <2>2 DEF Framed, Convention
<1>8. pc >= Len(code.instrs) => Here(note) = InMain
  BY <1>6 DEF Here, NoteAt
<1>. QED
  BY <1>1, <1>2, <1>4, <1>5, <1>7, <1>8

(* A word above $sp survives the step.                                     *)
LEMMA WordKept ==
  ASSUME Between, StepEffect, NEW a \in Nat, sp <= a, a + 4 <= RamSize
  PROVE  ReadInt32(ram', a) = ReadInt32(ram, a)
<1>1. \A k \in 0 .. 3 : a + k \in Cell /\ sp <= a + k
  BY BetweenTypes, RamSizeAssumption DEF Cell
<1>2. \A k \in 0 .. 3 : ram'[a + k] = ram[a + k]
  BY <1>1 DEF StepEffect
<1>. QED
  BY <1>2, SameBytesSameWord

LEMMA OuterAddressesKept ==
  ASSUME TypeOK, StackPointerInRam, NEW note, Framed(note), StepEffect, NEW k \in 2 .. Len(frames)
  PROVE  ReadInt32(ram', frames[k].sp - 4) = frames[k].to
<1>1. /\ Between /\ sp \in Nat /\ Len(frames) \in Nat
      /\ frames[1].sp \in Nat /\ frames[k].sp \in Nat /\ frames[k].sp < RamSize
  BY FrameFacts
<1>2. frames[1].sp <= frames[k].sp - 4 /\ KeepsAddress(k)
  BY DEF Framed, Nested
<1>3. sp <= frames[1].sp
  <2>1. frames # <<>>
    BY <1>1, FrameFacts
  <2>. QED
    BY <1>1, <2>1 DEF Framed, Innermost
<1>4. frames[k].sp - 4 \in Nat /\ sp <= frames[k].sp - 4 /\ frames[k].sp - 4 + 4 <= RamSize
  BY <1>1, <1>2, <1>3, RamSizeAssumption
<1>. QED
  BY <1>1, <1>2, <1>4, WordKept DEF KeepsAddress

(* Instructions other than CALL and RET: the calls stay as they are.       *)
LEMMA OrdinaryStep ==
  ASSUME TypeOK, TypeOK', StackPointerInRam, NEW note, Framed(note), StepEffect,
         OPCODE(instr) \notin {CALL, RET}, code' = code, frames' = frames
  PROVE  Framed(note)'
<1>1. /\ Between /\ sp \in Nat /\ sp < RamSize /\ Len(frames) \in Nat
      /\ frames = <<>> <=> Len(frames) = 0
      /\ \A k \in 1 .. Len(frames) : frames[k].sp \in Nat /\ frames[k].sp < RamSize
  BY FrameFacts
<1>2. Leads(instr, Here(note), Here(note)')
  <2>1. pc < Len(code.instrs) /\ pc' \in Successors(instr, pc)
    BY DEF StepEffect
  <2>2. Here(note) = note[pc] /\ Conforms(code, note, pc)
    BY <2>1, FrameFacts
  <2>3. Here(note)' = NoteAt(code, note, pc')
    BY DEF Here
  <2>. QED
    BY <2>1, <2>2, <2>3 DEF Conforms, instr
<1>3. Here(note).depth \in Nat /\ Grows(instr) \in Int
  <2>1. Here(note).depth \in Nat
    BY <1>1, NotesDiffer DEF Framed, Innermost
  <2>. QED
    BY <2>1 DEF Grows
<1>4. sp' = sp - Grows(instr)
  BY DEF StepEffect, sp
<1>5. Innermost(note)'
  <2>1. CASE frames = <<>>
    <3>1. Here(note) = InMain
      BY <2>1 DEF Framed, Innermost
    <3>2. Here(note)' = InMain
      BY <1>2, <3>1, NotesDiffer DEF Leads
    <3>. QED
      BY <2>1, <3>2 DEF Innermost
  <2>2. CASE frames # <<>> /\ Here(note) = Entered(Here(note).depth) /\ regs[R] = frames[1].to
    <3>1. frames[1].sp = sp + Here(note).depth
      BY <2>2 DEF Framed, Innermost
    <3>2. CASE Here(note) = Entered(0) /\ Saves(instr) /\ Here(note)' = Saved(4)
      <4>1. Grows(instr) = 4
        BY <3>2 DEF Saves, Grows, PUSHI, POPI, DUPI
      <4>2. Here(note).depth = 0 /\ Here(note)'.depth = 4
        BY <3>2, NotesDiffer
      <4>3. frames[1].sp = sp /\ frames[1].sp = sp' + 4
        BY <1>1, <1>4, <3>1, <4>1, <4>2
      <4>4. ReadInt32(ram', frames[1].sp - 4) = frames[1].to
        BY <2>2, <3>2, <4>3 DEF StepEffect
      <4>. QED
        BY <2>2, <3>2, <4>2, <4>3, <4>4 DEF Innermost, KeepsAddress
    <3>3. CASE /\ ~ NamesDest(instr, R) /\ Here(note).depth + Grows(instr) >= 0
               /\ Here(note)' = Entered(Here(note).depth + Grows(instr))
      <4>1. Here(note)'.depth = Here(note).depth + Grows(instr)
        BY <3>3, NotesDiffer
      <4>2. regs'[R] = regs[R]
        BY <3>3 DEF StepEffect
      <4>3. frames[1].sp = sp' + Here(note)'.depth /\ Here(note)'.depth \in Nat
        BY <1>1, <1>3, <1>4, <3>1, <3>3, <4>1
      <4>. QED
        BY <2>2, <3>3, <4>1, <4>2, <4>3 DEF Innermost
    <3>. QED
      BY <1>2, <2>2, <3>2, <3>3, NotesDiffer DEF Leads
  <2>3. CASE /\ frames # <<>> /\ Here(note) = Saved(Here(note).depth)
             /\ Here(note).depth >= 4 /\ KeepsAddress(1)
    <3>1. frames[1].sp = sp + Here(note).depth /\ frames[1].sp \in Nat /\ frames[1].sp < RamSize
      BY <1>1, <2>3 DEF Framed, Innermost
    <3>2. CASE Here(note) = Saved(4) /\ Restores(instr) /\ Here(note)' = Entered(0)
      <4>1. Grows(instr) = -4
        BY <3>2 DEF Restores, Grows, PUSHI, POPI, DUPI
      <4>2. Here(note).depth = 4 /\ Here(note)'.depth = 0
        BY <3>2, NotesDiffer
      <4>3. frames[1].sp - 4 = sp /\ frames[1].sp = sp' + 0
        BY <1>1, <1>4, <3>1, <4>1, <4>2
      <4>4. regs'[R] = frames[1].to
        BY <2>3, <3>2, <4>3 DEF StepEffect, KeepsAddress
      <4>. QED
        BY <2>3, <3>2, <4>2, <4>3, <4>4 DEF Innermost
    <3>3. CASE /\ Here(note).depth + Grows(instr) >= 4
               /\ Here(note)' = Saved(Here(note).depth + Grows(instr))
      <4>1. Here(note)'.depth = Here(note).depth + Grows(instr)
        BY <3>3, NotesDiffer
      <4>2. frames[1].sp = sp' + Here(note)'.depth /\ Here(note)'.depth \in Nat
        BY <1>1, <1>3, <1>4, <3>1, <3>3, <4>1
      <4>3. frames[1].sp - 4 \in Nat /\ sp <= frames[1].sp - 4 /\ frames[1].sp - 4 + 4 <= RamSize
        BY <1>1, <1>3, <2>3, <3>1, RamSizeAssumption
      <4>4. ReadInt32(ram', frames[1].sp - 4) = frames[1].to
        BY <1>1, <2>3, <4>3, WordKept DEF KeepsAddress
      <4>. QED
        BY <2>3, <3>3, <4>1, <4>2, <4>4 DEF Innermost, KeepsAddress
    <3>. QED
      BY <1>2, <2>3, <3>2, <3>3, NotesDiffer DEF Leads
  <2>. QED
    BY <2>1, <2>2, <2>3 DEF Framed, Innermost
<1>6. Nested'
  BY OuterAddressesKept DEF Nested, KeepsAddress, Framed
<1>7. Awaited(note)'
  BY DEF Awaited, Framed
<1>8. Convention(code, note)' /\ frames' \in Seq(Frame)
  BY DEF Framed
<1>. QED
  BY <1>5, <1>6, <1>7, <1>8 DEF Framed

LEMMA NewFrame ==
  ASSUME NEW S, NEW s \in Seq(S), NEW f \in S
  PROVE  /\ <<f>> \o s \in Seq(S) /\ Len(<<f>> \o s) = Len(s) + 1 /\ (<<f>> \o s)[1] = f
         /\ \A k \in 2 .. Len(s) + 1 : (<<f>> \o s)[k] = s[k - 1]
<1>1. <<f>> \in Seq(S) /\ Len(<<f>>) = 1 /\ <<f>>[1] = f
  OBVIOUS
<1>. QED
  BY <1>1

LEMMA OldFrame ==
  ASSUME NEW S, NEW s \in Seq(S), s # <<>>
  PROVE  /\ Tail(s) \in Seq(S) /\ Len(Tail(s)) = Len(s) - 1
         /\ \A k \in 1 .. Len(s) - 1 : Tail(s)[k] = s[k + 1]
OBVIOUS

LEMMA CallStep ==
  ASSUME TypeOK, TypeOK', StackPointerInRam, NEW note, Framed(note), StepEffect,
         OPCODE(instr) = CALL, code' = code,
         frames' = <<[to |-> pc + 1, sp |-> regs[SP]]>> \o frames
  PROVE  Framed(note)'
<1> DEFINE f == [to |-> pc + 1, sp |-> regs[SP]]
<1>1. /\ Between /\ sp \in Nat /\ sp < RamSize /\ Len(frames) \in Nat
      /\ frames = <<>> <=> Len(frames) = 0
      /\ \A k \in 1 .. Len(frames) : frames[k].sp \in Nat /\ frames[k].sp < RamSize
  BY FrameFacts
<1>2. f \in Frame /\ f.to = pc + 1 /\ f.sp = sp
  <2>1. sp \in Cell /\ pc + 1 \in Nat
    BY <1>1, RamSizeAssumption DEF Cell, TypeOK
  <2>. QED
    BY <2>1 DEF Frame, sp
<1>3. /\ frames' \in Seq(Frame) /\ Len(frames') = Len(frames) + 1 /\ frames'[1] = f
      /\ \A k \in 2 .. Len(frames) + 1 : frames'[k] = frames[k - 1]
  BY <1>2, NewFrame DEF Framed
<1>4. frames' # <<>>
  BY <1>1, <1>3
<1>5. /\ Here(note) = InMain \/ Here(note) = Saved(Here(note).depth)
      /\ NoteAt(code, note, ARG_JMP_VALUE(instr)) = Entered(0)
      /\ NoteAt(code, note, pc + 1) = Here(note)
  <2>1. pc < Len(code.instrs)
    BY DEF StepEffect
  <2>2. Here(note) = note[pc] /\ Conforms(code, note, pc)
    BY <2>1, FrameFacts
  <2>. QED
    BY <2>2 DEF Conforms, instr, CALL, RET
<1>6. sp' = sp /\ pc' = ARG_JMP_VALUE(instr) /\ regs'[R] = pc + 1
  <2>1. Grows(instr) = 0
    BY DEF Grows, CALL, PUSHI, POPI, DUPI
  <2>2. (pc + 1) % WordSize = pc + 1
    <3>1. pc + 1 \in Nat /\ pc + 1 < WordSize
      BY WordSizeType DEF StepEffect, Framed, Convention, TypeOK, Program
    <3>2. \A n \in Nat : n < WordSize => n % WordSize = n
      BY WordSizeType
    <3>. QED
      BY <3>1, <3>2
  <2>. QED
    BY <1>1, <2>1, <2>2 DEF StepEffect, sp
<1> HIDE DEF f
<1>7. frames = <<>> \/ (frames # <<>> /\ Here(note) = Saved(Here(note).depth) /\ Here(note).depth >= 4
                         /\ Here(note).depth \in Nat /\ KeepsAddress(1) /\ frames[1].sp = sp + Here(note).depth)
  BY <1>5, NotesDiffer DEF Framed, Innermost
<1>8. Innermost(note)'
  <2>1. Here(note)' = Entered(0)
    BY <1>5, <1>6 DEF Here
  <2>2. Here(note)'.depth = 0
    BY <2>1, NotesDiffer
  <2>3. frames'[1].sp = sp' + 0 /\ regs'[R] = frames'[1].to
    BY <1>1, <1>2, <1>3, <1>6
  <2>. QED
    BY <1>4, <2>1, <2>2, <2>3 DEF Innermost
<1>9. Nested'
  <2> SUFFICES ASSUME NEW k \in 2 .. Len(frames) + 1
               PROVE  /\ ReadInt32(ram', frames'[k].sp - 4) = frames'[k].to
                      /\ \A j \in 1 .. k - 1 : frames'[j].sp <= frames'[k].sp - 4
    BY <1>3 DEF Nested, KeepsAddress
  <2>1. k - 1 \in 1 .. Len(frames) /\ frames'[k] = frames[k - 1] /\ frames # <<>>
    BY <1>1, <1>3
  <2>2. sp <= frames[1].sp - 4
    BY <1>1, <1>7, <2>1
  <2>3. CASE k = 2
    <3>1. frames[1].sp - 4 \in Nat /\ frames[1].sp - 4 + 4 <= RamSize
      BY <1>1, <2>1, <2>2, <2>3, RamSizeAssumption
    <3>2. ReadInt32(ram', frames[1].sp - 4) = frames[1].to
      BY <1>1, <1>7, <2>1, <2>2, <3>1, WordKept DEF KeepsAddress
    <3>3. \A j \in 1 .. k - 1 : j = 1
      BY <2>3
    <3>. QED
      BY <1>2, <1>3, <2>1, <2>2, <2>3, <3>2, <3>3
  <2>4. CASE k > 2
    <3>1. k - 1 \in 2 .. Len(frames)
      BY <2>1, <2>4
    <3>2. ReadInt32(ram', frames[k - 1].sp - 4) = frames[k - 1].to
      BY <3>1, OuterAddressesKept
    <3>3. ASSUME NEW j \in 1 .. k - 1
          PROVE  frames'[j].sp <= frames'[k].sp - 4
      <4>1. 1 \in 1 .. (k - 1) - 1
        BY <2>4
      <4>2. frames[1].sp <= frames[k - 1].sp - 4
        BY <3>1, <4>1 DEF Framed, Nested
      <4>3. CASE j = 1
        <5>1. frames'[j].sp = sp /\ frames[k - 1].sp \in Nat /\ frames[1].sp \in Nat
          BY <1>1, <1>2, <1>3, <2>1, <4>3, <3>1
        <5>2. sp <= frames[k - 1].sp - 4
          BY <1>1, <2>2, <4>2, <5>1
        <5>. QED
          BY <2>1, <5>1, <5>2
      <4>4. CASE j # 1
        <5>1. j - 1 \in 1 .. (k - 1) - 1 /\ j \in 2 .. Len(frames) + 1
          BY <4>4, <1>1, <3>1
        <5>2. frames[j - 1].sp <= frames[k - 1].sp - 4
          BY <3>1, <5>1 DEF Framed, Nested
        <5>. QED
          BY <1>3, <2>1, <5>1, <5>2
      <4>. QED
        BY <4>3, <4>4
    <3>. QED
      BY <2>1, <3>2, <3>3
  <2>. QED
    BY <2>3, <2>4
<1>10. Awaited(note)'
  <2> SUFFICES ASSUME NEW k \in 1 .. Len(frames) + 1
               PROVE  NoteAt(code, note, frames'[k].to) =
                        IF k = Len(frames) + 1 THEN InMain ELSE Saved(frames'[k + 1].sp - frames'[k].sp)
    BY <1>3 DEF Awaited
  <2>1. CASE k = 1
    <3>1. NoteAt(code, note, frames'[k].to) = Here(note)
      BY <1>2, <1>3, <1>5, <2>1
    <3>2. CASE frames = <<>>
      BY <1>1, <2>1, <3>1, <3>2 DEF Framed, Innermost
    <3>3. CASE frames # <<>>
      <4>1. frames'[2] = frames[1] /\ Len(frames) > 0
        BY <1>1, <1>3, <3>3
      <4>2. frames'[2].sp - frames'[1].sp = Here(note).depth
        BY <1>1, <1>2, <1>3, <1>7, <3>3, <4>1
      <4>. QED
        BY <1>1, <1>7, <2>1, <3>1, <3>3, <4>1, <4>2
    <3>. QED
      BY <3>2, <3>3
  <2>2. CASE k # 1
    <3>1. k - 1 \in 1 .. Len(frames) /\ k \in 2 .. Len(frames) + 1
      BY <1>1, <2>2
    <3>2. frames'[k] = frames[k - 1]
      BY <1>3, <3>1
    <3>3. NoteAt(code, note, frames[k - 1].to) =
            IF k - 1 = Len(frames) THEN InMain ELSE Saved(frames[k - 1 + 1].sp - frames[k - 1].sp)
      BY <3>1 DEF Framed, Awaited
    <3>4. k - 1 # Len(frames) => frames'[k + 1] = frames[k - 1 + 1]
      <4>1. Len(frames) \in Nat
        BY <1>1
      <4>2. k - 1 # Len(frames) => k + 1 \in 2 .. Len(frames) + 1 /\ k + 1 - 1 = k - 1 + 1
        BY <3>1, <4>1
      <4>. QED
        BY <1>3, <4>2
    <3>5. k - 1 = Len(frames) <=> k = Len(frames) + 1
      BY <1>1, <3>1
    <3>. QED
      BY <3>2, <3>3, <3>4, <3>5
  <2>. QED
    BY <2>1, <2>2
<1>11. Convention(code, note)'
  BY DEF Framed
<1>. QED
  BY <1>3, <1>8, <1>9, <1>10, <1>11 DEF Framed

(* A RET finds its caller in $r, $sp where it was, and the note of the     *)
(* instruction it goes to true.                                            *)
LEMMA RetStep ==
  ASSUME TypeOK, TypeOK', StackPointerInRam, NEW note, Framed(note), StepEffect,
         OPCODE(instr) = RET, code' = code, frames # <<>> => frames' = Tail(frames)
  PROVE  /\ frames # <<>> /\ pc' = frames[1].to /\ regs'[SP] = frames[1].sp
         /\ Framed(note)'
<1>1. /\ Between /\ sp \in Nat /\ sp < RamSize /\ Len(frames) \in Nat
      /\ frames = <<>> <=> Len(frames) = 0
      /\ \A k \in 1 .. Len(frames) : frames[k].sp \in Nat /\ frames[k].sp < RamSize
  BY FrameFacts
<1>2. Here(note) = Entered(0)
  <2>1. pc < Len(code.instrs)
    BY DEF StepEffect
  <2>2. Here(note) = note[pc] /\ Conforms(code, note, pc)
    BY <2>1, FrameFacts
  <2>. QED
    BY <2>2 DEF Conforms, instr, CALL, RET
<1>3. /\ frames # <<>> /\ frames[1].sp = sp + 0 /\ regs[R] = frames[1].to
  BY <1>2, NotesDiffer DEF Framed, Innermost
<1>4. frames' = Tail(frames) /\ Len(frames) > 0
  BY <1>1, <1>3
<1>5. sp' = sp /\ pc' = frames[1].to /\ regs'[SP] = frames[1].sp
  <2>1. Grows(instr) = 0
    BY DEF Grows, RET, PUSHI, POPI, DUPI
  <2>. QED
    BY <1>1, <1>3, <2>1 DEF StepEffect, sp
<1>6. /\ frames' \in Seq(Frame) /\ Len(frames') = Len(frames) - 1
      /\ \A k \in 1 .. Len(frames) - 1 : frames'[k] = frames[k + 1]
  BY <1>3, <1>4, OldFrame DEF Framed
<1>7. NoteAt(code, note, frames[1].to) =
        IF 1 = Len(frames) THEN InMain ELSE Saved(frames[1 + 1].sp - frames[1].sp)
  <2>1. 1 \in 1 .. Len(frames)
    BY <1>1, <1>4
  <2>. QED
    BY <2>1 DEF Framed, Awaited
<1>8. Here(note)' = NoteAt(code, note, frames[1].to)
  BY <1>5 DEF Here
<1>9. Innermost(note)'
  <2>1. CASE Len(frames) = 1
    <3>1. frames' = <<>> /\ Here(note)' = InMain
      BY <1>6, <1>7, <1>8, <2>1
    <3>. QED
      BY <3>1 DEF Innermost
  <2>2. CASE Len(frames) > 1
    <3>1. 2 \in 2 .. Len(frames) /\ 1 \in 1 .. 2 - 1 /\ 2 \in 1 .. Len(frames)
      BY <1>1, <2>2
    <3>2. frames[1].sp <= frames[2].sp - 4
      BY <3>1 DEF Framed, Nested
    <3>3. ReadInt32(ram', frames[2].sp - 4) = frames[2].to
      BY <3>1, OuterAddressesKept
    <3>4. frames'[1] = frames[2] /\ frames' # <<>>
      BY <1>1, <1>6, <2>2
    <3>5. Here(note)' = Saved(frames[2].sp - frames[1].sp)
      BY <1>7, <1>8, <2>2
    <3>6. Here(note)'.depth = frames[2].sp - frames[1].sp
      BY <3>5, NotesDiffer
    <3>7. frames[1].sp \in Nat /\ frames[2].sp \in Nat
      BY <1>1, <1>4, <3>1
    <3>8. /\ Here(note)'.depth \in Nat /\ Here(note)'.depth >= 4
          /\ frames'[1].sp = sp' + Here(note)'.depth
      <4>1. Here(note)'.depth \in Nat /\ Here(note)'.depth >= 4
        BY <3>2, <3>6, <3>7
      <4>2. frames[2].sp = sp' + (frames[2].sp - frames[1].sp)
        BY <1>1, <1>3, <1>5, <3>7
      <4>. QED
        BY <3>4, <3>6, <4>1, <4>2
    <3>. QED
      BY <3>3, <3>4, <3>5, <3>6, <3>8 DEF Innermost, KeepsAddress
  <2>3. Len(frames) = 1 \/ Len(frames) > 1
    <3>1. Len(frames) \in Nat
      BY <1>1
    <3>2. Len(frames) > 0
      BY <1>4
    <3>3. \A n \in Nat : n > 0 => n = 1 \/ n > 1
      OBVIOUS
    <3>. QED
      BY <3>1, <3>2, <3>3
  <2>. QED
    BY <2>1, <2>2, <2>3
<1>10. Nested'
  <2> SUFFICES ASSUME NEW k \in 2 .. Len(frames) - 1
               PROVE  /\ ReadInt32(ram', frames'[k].sp - 4) = frames'[k].to
                      /\ \A j \in 1 .. k - 1 : frames'[j].sp <= frames'[k].sp - 4
    BY <1>6 DEF Nested, KeepsAddress
  <2>1. k + 1 \in 2 .. Len(frames) /\ frames'[k] = frames[k + 1]
    BY <1>1, <1>6
  <2>2. ReadInt32(ram', frames[k + 1].sp - 4) = frames[k + 1].to
    BY <2>1, OuterAddressesKept
  <2>3. ASSUME NEW j \in 1 .. k - 1
        PROVE  frames'[j].sp <= frames'[k].sp - 4
    <3>1. j + 1 \in 1 .. (k + 1) - 1 /\ j \in 1 .. Len(frames) - 1
      BY <1>1
    <3>2. frames[j + 1].sp <= frames[k + 1].sp - 4
      BY <2>1, <3>1 DEF Framed, Nested
    <3>. QED
      BY <1>6, <2>1, <3>1, <3>2
  <2>. QED
    BY <2>1, <2>2, <2>3
<1>11. Awaited(note)'
  <2> SUFFICES ASSUME NEW k \in 1 .. Len(frames) - 1
               PROVE  NoteAt(code, note, frames'[k].to) =
                        IF k = Len(frames) - 1 THEN InMain ELSE Saved(frames'[k + 1].sp - frames'[k].sp)
    BY <1>6 DEF Awaited
  <2>1. k + 1 \in 1 .. Len(frames) /\ frames'[k] = frames[k + 1]
    BY <1>1, <1>6
  <2>2. NoteAt(code, note, frames[k + 1].to) =
          IF k + 1 = Len(frames) THEN InMain ELSE Saved(frames[k + 1 + 1].sp - frames[k + 1].sp)
    BY <2>1 DEF Framed, Awaited
  <2>3. k + 1 = Len(frames) <=> k = Len(frames) - 1
    BY <1>1
  <2>4. k + 1 # Len(frames) => frames'[k + 1] = frames[k + 1 + 1]
    <3>1. k + 1 # Len(frames) => k + 1 \in 1 .. Len(frames) - 1
      BY <1>1
    <3>. QED
      BY <1>6, <3>1
  <2>. QED
    BY <2>1, <2>2, <2>3, <2>4
<1>12. Convention(code, note)'
  BY DEF Framed
<1>. QED
  BY <1>3, <1>5, <1>6, <1>9, <1>10, <1>11, <1>12 DEF Framed

(* The loop is left at its end only, and the process does not come back.   *)
LEMMA EndsByHalt ==
  ASSUME Step, status = "running", status' = "exited"
  PROVE  Halt
<1>1. ASSUME NEW t, NEW accesses, NEW m, NEW target, NEW printed,
             Perform(t, accesses, m, target, printed)
      PROVE  status' # "exited"
  BY <1>1, PerformCases, AccessType
<1>. QED
  BY <1>1 DEF Step, AddTraps, UnknownOpcode, Goto, Noop, Jmp, Call, Ret, If, Ife, Mov,
       Ldc, Ldca, Push, Pop, Dup, PrintNumber, PrintC, Add

LEMMA EndedStays ==
  ASSUME Next, status # "running"
  PROVE  status' = status
BY DEF Next, Step, Executes, Ended, vars, AddTraps, UnknownOpcode, Halt, Goto, Noop, Jmp, Call, Ret, If, Ife,
       Mov, Ldc, Ldca, Push, Pop, Dup, PrintNumber, PrintC, Add

-----------------------------------------------------------------------------
LEMMA StartOfCalls ==
  ASSUME \A p \in Programs : FollowsConvention(p), CallInit
  PROVE  CallInv
<1>1. PICK note : Convention(code, note)
  BY DEF CallInit, Init, FollowsConvention
<1>2. frames = <<>> /\ pc = 0 /\ status = "running"
  BY DEF CallInit, Init
<1>3. Here(note) = InMain
  BY <1>1, <1>2 DEF Here, Convention
<1>4. frames \in Seq(Frame) /\ Len(frames) = 0
  BY <1>2
<1>5. Innermost(note) /\ Nested /\ Awaited(note)
  BY <1>2, <1>3, <1>4 DEF Innermost, Nested, Awaited
<1>. QED
  BY <1>1, <1>2, <1>4, <1>5 DEF CallInv, Framed

(* A step of a running program, seen with the note of its convention.      *)
LEMMA RunningStep ==
  ASSUME TypeOK, TypeOK', StackPointerInRam, NEW note, Framed(note),
         status = "running", Step, CallNext
  PROVE  /\ status' = "running" => Framed(note)'
         /\ status' = "exited" => frames' = <<>>
         /\ Returning => /\ frames # <<>> /\ pc' = frames[1].to /\ regs'[SP] = frames[1].sp
<1>1. Between /\ code' = code
  BY FrameFacts, CodeIsConstant DEF Next
<1>2. CASE status' = "running"
  <2>1. StepEffect
    BY <1>1, <1>2, StepHasEffect
  <2>2. pc < Len(code.instrs) /\ CALL # RET
    BY <2>1 DEF StepEffect, CALL, RET
  <2>3. CASE OPCODE(instr) = CALL
    <3>1. frames' = <<[to |-> pc + 1, sp |-> regs[SP]]>> \o frames
      BY <2>2, <2>3 DEF CallNext, Executes
    <3>. QED
      BY <1>1, <1>2, <2>1, <2>2, <2>3, <3>1, CallStep DEF Returning, Executes
  <2>4. CASE OPCODE(instr) = RET
    <3>1. frames # <<>> => frames' = Tail(frames)
      BY <2>2, <2>4 DEF CallNext, Executes
    <3>. QED
      BY <1>1, <1>2, <2>1, <2>4, <3>1, RetStep
  <2>5. CASE OPCODE(instr) \notin {CALL, RET}
    <3>1. frames' = frames
      BY <2>5 DEF CallNext, Executes
    <3>. QED
      BY <1>1, <1>2, <2>1, <2>5, <3>1, OrdinaryStep DEF Returning, Executes
  <2>. QED
    BY <2>3, <2>4, <2>5
<1>3. CASE status' # "running"
  <2>1. ASSUME status' = "exited" PROVE frames' = <<>>
    <3>1. pc >= Len(code.instrs)
      <4>1. Halt
        BY <2>1, EndsByHalt
      <4>. QED
        BY <4>1 DEF Halt
    <3>2. Here(note) = InMain
      BY <3>1, FrameFacts
    <3>3. frames = <<>>
      BY <3>2, NotesDiffer DEF Framed, Innermost
    <3>4. ~ Executes(CALL)
      BY <3>1, FrameFacts DEF Executes, TypeOK, Program
    <3>. QED
      BY <3>3, <3>4 DEF CallNext
  <2>. QED
    BY <1>3, <2>1 DEF Returning
<1>. QED
  BY <1>2, <1>3

LEMMA CallInvStep ==
  ASSUME TypeOK, TypeOK', StackPointerInRam, CallInv, [CallNext]_callVars
  PROVE  /\ CallInv'
         /\ [Returning => frames # <<>> /\ pc' = frames[1].to /\ regs'[SP] = frames[1].sp]_callVars
<1>1. CASE CallNext /\ status = "running"
  <2>1. PICK note : Framed(note)
    BY <1>1 DEF CallInv
  <2>2. Step
    BY <1>1 DEF CallNext, Next, Ended
  <2>. QED
    BY <1>1, <2>1, <2>2, RunningStep DEF CallInv
<1>2. CASE CallNext /\ status # "running"
  <2>1. status' = status /\ frames' = frames
    BY <1>2, EndedStays DEF CallNext, Executes
  <2>. QED
    BY <1>2, <2>1 DEF CallInv, Returning
<1>3. CASE UNCHANGED callVars
  <2>1. UNCHANGED <<code, regs, ram, pc, status, out, frames>>
    BY <1>3 DEF callVars, vars
  <2>2. CallInv'
    BY <2>1 DEF CallInv, Framed, Innermost, Nested, Awaited, Here, KeepsAddress, sp
  <2>. QED
    BY <1>3, <2>2
<1>. QED
  BY <1>1, <1>2, <1>3

LEMMA MachineOfCalls ==
  /\ CallInit => Init
  /\ [CallNext]_callVars => [Next]_vars
BY DEF CallInit, CallNext, callVars, vars

LEMMA CallsAreRuns == CallSpec => []TypeOK /\ []StackPointerInRam
BY MachineOfCalls, TypeCorrect, StackPointerSafe, PTL DEF CallSpec, Spec

THEOREM CallInvHolds ==
  ASSUME \A p \in Programs : FollowsConvention(p)
  PROVE  CallSpec => []CallInv
<1>1. CallInit => CallInv
  BY StartOfCalls
<1>2. TypeOK /\ TypeOK' /\ StackPointerInRam /\ CallInv /\ [CallNext]_callVars => CallInv'
  BY CallInvStep
<1>. QED
  BY <1>1, <1>2, CallsAreRuns, PTL DEF CallSpec

(* Programs that follow the convention: every return goes to the           *)
(* instruction behind the innermost active call with the stack of that     *)
(* call, however deep calls are nested and whatever the stack is used for  *)
(* in between.                                                             *)
THEOREM CallsAreReturned ==
  ASSUME \A p \in Programs : FollowsConvention(p)
  PROVE  CallSpec => ReturnsToCaller
<1>1. TypeOK /\ TypeOK' /\ StackPointerInRam /\ CallInv /\ [CallNext]_callVars =>
        [Returning => frames # <<>> /\ pc' = frames[1].to /\ regs'[SP] = frames[1].sp]_callVars
  BY CallInvStep
<1>. QED
  BY <1>1, CallInvHolds, CallsAreRuns, PTL DEF CallSpec, ReturnsToCaller

(* ... the address a calling subroutine will return to stays in the word   *)
(* it pushed first, ...                                                    *)
THEOREM AddressesAreKept ==
  ASSUME \A p \in Programs : FollowsConvention(p)
  PROVE  CallSpec => []KeepsReturnAddresses
<1>1. CallInv => KeepsReturnAddresses
  BY DEF CallInv, Framed, Nested, KeepsAddress, KeepsReturnAddresses
<1>. QED
  BY <1>1, CallInvHolds, PTL

(* ... and the program does not come to its end inside a subroutine.       *)
THEOREM NoCallIsLeftOpen ==
  ASSUME \A p \in Programs : FollowsConvention(p)
  PROVE  CallSpec => []AllCallsReturn
<1>1. CallInv => AllCallsReturn
  BY DEF CallInv, AllCallsReturn
<1>. QED
  BY <1>1, CallInvHolds, PTL
=============================================================================
