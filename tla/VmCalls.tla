------------------------------ MODULE VmCalls -------------------------------
(***************************************************************************)
(* Subroutines on the machine: CALL leaves the return address in $r and    *)
(* nowhere else, RET goes to whatever $r holds.  A subroutine that calls   *)
(* another one keeps its own return address by `pushi $r' on entry and     *)
(* `popi $r' before its `ret', as examples/fib.asm does.                   *)
(*                                                                         *)
(* frames is a history variable: the calls a debugger would show as        *)
(* active, the innermost first.                                            *)
(***************************************************************************)
EXTENDS Vm

VARIABLE frames

callVars == <<vars, frames>>

Returning == Executes(RET) /\ status' = "running"

CallInit == Init /\ frames = <<>>

CallNext ==
  /\ Next
  /\ frames' = IF Executes(CALL) THEN <<[to |-> pc + 1, sp |-> regs[SP]]>> \o frames
               ELSE IF Executes(RET) /\ frames # <<>> THEN Tail(frames)
               ELSE frames

CallSpec == CallInit /\ [][CallNext]_callVars

FairCallSpec == CallSpec /\ WF_callVars(CallNext /\ Step)

-----------------------------------------------------------------------------
(* The convention, as something that can be checked line by line: a note   *)
(* for every instruction says where the return address of the subroutine   *)
(* it belongs to is, and how many bytes the subroutine has pushed.         *)
InMain     == [address |-> "none", depth |-> 0]
Entered(d) == [address |-> "register", depth |-> d]    \* in $r
Saved(d)   == [address |-> "stack", depth |-> d]       \* in the word pushed first
Unreached  == [address |-> "unreached", depth |-> 0]

NoteAt(p, note, k) == IF k < Len(p.instrs) THEN note[k] ELSE InMain

Grows(i) ==
  CASE OPCODE(i) \in {PUSHI, PUSHI + 1, DUPI, DUPI + 1} -> 4
    [] OPCODE(i) \in {PUSHI + 2, DUPI + 2} -> 1
    [] OPCODE(i) \in {POPI, POPI + 1} -> -4
    [] OPCODE(i) = POPI + 2 -> -1
    [] OTHER -> 0

Saves(i)    == OPCODE(i) = PUSHI /\ IS_ARG2_REG(i) /\ ~ IS_ARG2_ADDR(i) /\ ARG2_VALUE(i) = R
Restores(i) == OPCODE(i) = POPI /\ ~ IS_ARG1_ADDR(i) /\ ARG2_VALUE(i) = R

(* What instruction i makes of note n.                                     *)
Leads(i, n, next) ==
  LET depth == n.depth + Grows(i)
  IN  \/ n = InMain /\ next = InMain
      \/ n = Entered(0) /\ Saves(i) /\ next = Saved(4)
      \/ n = Saved(4) /\ Restores(i) /\ next = Entered(0)
      \/ n = Entered(n.depth) /\ ~ NamesDest(i, R) /\ depth >= 0 /\ next = Entered(depth)
      \/ n = Saved(n.depth) /\ depth >= 4 /\ next = Saved(depth)

Successors(i, k) ==
  IF OPCODE(i) = JMP THEN {ARG_JMP_VALUE(i)}
  ELSE IF OPCODE(i) \in IFI .. IFEI + 2 THEN {k + 1, k + 2} ELSE {k + 1}

(* A subroutine is entered by a CALL and left by a RET with nothing on the *)
(* stack and its return address in $r; before it calls, it has saved it.   *)
Conforms(p, note, k) ==
  LET i == p.instrs[k + 1]
  IN  CASE OPCODE(i) = CALL -> /\ note[k] = InMain \/ note[k] = Saved(note[k].depth)
                               /\ NoteAt(p, note, ARG_JMP_VALUE(i)) = Entered(0)
                               /\ NoteAt(p, note, k + 1) = note[k]
        [] OPCODE(i) = RET  -> note[k] = Entered(0)
        [] OTHER -> \A s \in Successors(i, k) : Leads(i, note[k], NoteAt(p, note, s))

Convention(p, note) ==
  /\ StoresOnlyByPush(p) /\ Len(p.instrs) < WordSize
  /\ DOMAIN note = 0 .. Len(p.instrs) - 1
  /\ \A k \in DOMAIN note : note[k].depth \in Nat
  /\ NoteAt(p, note, 0) = InMain
  /\ \A k \in DOMAIN note : note[k] # Unreached => Conforms(p, note, k)

FollowsConvention(p) == \E note : Convention(p, note)

-----------------------------------------------------------------------------
(* A return goes to the instruction behind the innermost active call, with *)
(* the stack as it was at that call, however deep the calls are nested and *)
(* whatever was pushed in between.                                         *)
ReturnsToCaller ==
  [][Returning => /\ frames # <<>>
                  /\ pc' = frames[1].to
                  /\ regs'[SP] = frames[1].sp]_callVars

(* The return address of every active call but the innermost is in the     *)
(* word its subroutine pushed first, and no later push or call changes it: *)
(* a recursion too deep for the stack is stopped before it could.          *)
KeepsReturnAddresses ==
  status = "running" =>
    \A k \in 2 .. Len(frames) : ReadInt32(ram, frames[k].sp - 4) = frames[k].to

(* Every call that is made is answered: the run does not end before each   *)
(* active call has returned, unless the stack or the program ended it.     *)
AllCallsReturn == status = "exited" => frames = <<>>

(* A bounded recursion comes to its end.                                   *)
CallsEnd == <>(status # "running")
=============================================================================
