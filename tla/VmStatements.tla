---------------------------- MODULE VmStatements ----------------------------
(***************************************************************************)
(* Two statements of the documentation about the stack of the machine,     *)
(* neither of which the code keeps to by itself: it never reads the size   *)
(* of the stack, and CALL pushes nothing.                                  *)
(***************************************************************************)
EXTENDS VmStack, VmCalls

(* CALL "pushes the address on the next instruction onto the stack" and    *)
(* RET goes there (bytecode.h:91-92), so that a call inside of a           *)
(* subroutine needs nothing else to come back.                             *)
ReturnIsPushed ==
  frames # <<>> /\ pc' = frames[1].to /\ regs'[SP] = frames[1].sp

(* At every return of every program one of the two is true: either it goes *)
(* behind the innermost active call, or the stack is within the size that  *)
(* -s, "the max stack size" (main.c:22), gives it.  A return for which     *)
(* this is false refutes both.                                             *)
SomeStackStatementHolds ==
  [][Returning => ReturnIsPushed \/ StackInItsRegion]_callVars
=============================================================================
