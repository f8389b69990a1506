--------------------------- MODULE MCVmStatements ---------------------------
(* VmStatements on one program: with two words pushed, more than StackSize *)
(* bytes, it calls a subroutine that calls another and does not save $r.   *)
EXTENDS VmStatements, VmPrograms

A == 4

Compare(x, y) == x > y
CompareEq(x, y) == x >= y
NoFloatAdd(x, y) == x

PushLine     == Line(PUSHI, <<RegArg(A)>>)
CallLine(n)  == Line(CALL, <<LabelArg(n)>>)
Return       == Line(RET, <<>>)

(* 0: main; 4: f; 6: g; 7: end                                             *)
MCUnsavedPrograms ==
  {[instrs |-> Assembled(<<PushLine, PushLine, CallLine(4), Line(JMP, <<LabelArg(7)>>),
                           CallLine(6), Return,
                           Return>>, 0),
    constants |-> <<>>, pool |-> <<>>]}
=============================================================================
