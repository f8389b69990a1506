------------------------------ MODULE VmStack -------------------------------
(***************************************************************************)
(* The stack of the machine as an implementation of ByteStack: the bytes   *)
(* from $sp up to the value vmInit gave it.  The last byte of the RAM is   *)
(* never part of it.                                                       *)
(***************************************************************************)
EXTENDS Vm

CONSTANT StackSize      \* config->stackSize

ASSUME StackSizeAssumption == StackSize \in 0 .. RamSize     \* tested by vmInit

StackBytes == [k \in 1 .. RamSize - 1 - regs[SP] |-> ram[regs[SP] + k - 1]]

Stack == INSTANCE ByteStack WITH
           Bytes    <- Byte,
           Capacity <- RamSize - 1,
           stack    <- StackBytes,
           failed   <- status = "access_violation"

(* Programs that reach the RAM through the stack only, and use $sp only    *)
(* as an operand that is read.                                             *)
UsesRamByStackOnly(i) ==
  /\ HasArg1(i) \/ PopsOrDups(i) => ~ IS_ARG1_ADDR(i)
  /\ HasArg2(i) /\ OPCODE(i) # LDCA =>
       \/ ~ ReadsConstant(i) /\ IS_ARG2_REG(i) /\ ~ IS_ARG2_ADDR(i)
       \/ (ReadsConstant(i) \/ ~ IS_ARG2_REG(i)) /\ IS_ARG2_IMM(i) /\ TakesImmediate(i)

StackOnly(p) ==
  WellFormed(p) /\ LeavesSpAlone(p)
    /\ \A k \in DOMAIN p.instrs : UsesRamByStackOnly(p.instrs[k])

(* The machine implements ByteStack: pushes, pops and duplications of any  *)
(* sizes see one last-in first-out stack, whose bytes no other instruction *)
(* disturbs, and exactly the operation that overflows or underflows it     *)
(* stops the program, although CHECK_RANGE knows of no stack.              *)
ImplementsByteStack == Stack!Spec

(* The README's memory layout: the stack is the StackSize bytes at the top *)
(* of the RAM.                                                             *)
StackInItsRegion == regs[SP] >= RamSize - 1 - StackSize
=============================================================================
