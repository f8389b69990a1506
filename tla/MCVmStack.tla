----------------------------- MODULE MCVmStack ------------------------------
(* VmStack on every program of two or three stack instructions, ended or   *)
(* repeated by a jump to its first line.                                   *)
EXTENDS VmStack, VmPrograms

A == 4
B == 5

Compare(x, y) == x > y
CompareEq(x, y) == x >= y
NoFloatAdd(x, y) == x

StackLines ==
  {Line(PUSHI, <<RegArg(A)>>), Line(PUSHI + 1, <<RegArg(B)>>), Line(PUSHI + 2, <<RegArg(B)>>),
   Line(PUSHI + 2, <<RegArg(SP)>>), Line(PUSHI, <<ImmArg(<<7>>)>>),
   Line(POPI, <<RegArg(B)>>), Line(POPI + 2, <<RegArg(A)>>),
   Line(DUPI, <<RegArg(A)>>), Line(DUPI + 1, <<RegArg(B)>>), Line(DUPI + 2, <<RegArg(A)>>),
   Line(MOVI, <<RegArg(A), RegArg(B)>>), Line(ADDI, <<RegArg(B), RegArg(SP)>>)}

LastLines == {Line(JMP, <<LabelArg(0)>>), Line(JMP, <<LabelArg(1)>>), Line(NOOP, <<>>)}

MCStackPrograms ==
  {[instrs |-> Assembled(<<x, y, z, w>>, 0), constants |-> <<>>, pool |-> <<>>] :
     x \in StackLines, y \in StackLines, z \in StackLines, w \in LastLines}

ASSUME ProgramsFit == \A p \in Programs : StackOnly(p)
=============================================================================
