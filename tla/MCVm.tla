-------------------------------- MODULE MCVm --------------------------------
(* Vm on two-line programs: any line of a menu that has every case of the  *)
(* switch with every form of operand, then a line of a shorter menu that   *)
(* makes it loop, return, or meet what the first line did.                 *)
EXTENDS Vm, VmPrograms

A == 4
B == 5

Floats == INSTANCE MiniFloat WITH WordSize <- WordSize
MCFloatGt(x, y)  == Floats!Gt(x, y)
MCFloatGe(x, y)  == Floats!Ge(x, y)
MCFloatAdd(x, y) == Floats!Add(x, y)

Arg1s == {RegArg(A), AddrArg(A), RegArg(SP)}
Arg2s == {RegArg(B), AddrArg(B), RegArg(SP), RegArg(PC), AddrArg(SP),
          ImmArg(<<0>>), ImmArg(<<6>>), ConstArg(0), ConstArg(1)}
Dests == {RegArg(A), RegArg(SP), RegArg(R), ImmArg(<<9>>)}

TwoArgOps == (MOVI .. LDCA) \cup (IFI .. IFEI + 2) \cup (ADDI .. ADDI + 1)
ArgOps    == (PUSHI .. PUSHI + 2) \cup (PRINTI .. PRINTC)

Menu ==
  {Line(op, <<x, y>>) : op \in TwoArgOps, x \in Arg1s, y \in Arg2s}
    \cup {Line(op, <<y>>) : op \in ArgOps, y \in Arg2s}
    \cup {Line(op, <<d>>) : op \in POPI .. DUPI + 2, d \in Dests}
    \cup {Line(op, <<LabelArg(n)>>) : op \in {JMP, CALL}, n \in {0, 1, 3}}
    \cup {Line(RET, <<>>), Line(NOOP, <<>>), Line(SUBI, <<RegArg(A), RegArg(B)>>)}

Second ==
  {Line(PUSHI, <<RegArg(A)>>), Line(POPI + 2, <<RegArg(A)>>),
   Line(JMP, <<LabelArg(0)>>), Line(RET, <<>>)}

(* An INT8 at 0 and an INT32 at 1. *)
MCPrograms ==
  {[instrs |-> Assembled(<<x, y>>, 2), constants |-> <<0, 1>>, pool |-> <<3, 1, 0, 2, 0>>] :
     x \in Menu, y \in Second}
=============================================================================
