---------------------------- MODULE MCAssembler -----------------------------
(* Assembler on all files of three lines from a menu with every kind of    *)
(* line, of operand and of mistake.                                        *)
EXTENDS AssemblerLines, VmPrograms

A == 4
B == 5
X == 1
Y == 2

Constant(n, v)  == [kind |-> "constant", name |-> n, value |-> v]
LabelLine(n)    == [kind |-> "label", name |-> n]
CodeLine(op, args) == [kind |-> "code"] @@ Line(op, args)

MCFreshRam == {[c \in Cell |-> 1]}

ConstantLines ==
  {Constant(X, [form |-> "int", n |-> n]) : n \in {-2, 2, 500}}
    \cup {Constant(Y, [form |-> "string", chars |-> <<3, 1>>]),
          Constant(Y, [form |-> "float", word |-> 200]),
          Constant(Y, [form |-> "absent"]), Constant(Y, [form |-> "quote"])}

CodeLines ==
  {CodeLine(JMP, <<LabelArg(X)>>), CodeLine(MOVI, <<RegArg(B), LabelArg(X)>>),
   CodeLine(PUSHI, <<ConstArg(Y)>>), CodeLine(LDCI, <<AddrArg(A), ConstArg(X)>>),
   CodeLine(ADDI, <<AddrArg(11), AddrArg(10)>>), CodeLine(IFEI, <<RegArg(0), RegArg(B)>>),
   CodeLine(ADDI + 1, <<RegArg(B), ImmArg(<<5, 2, 4, 2, 8, 7>>)>>),
   CodeLine(PRINTI, <<ImmArg(<<5, 2, 4, 2, 8, 8>>)>>),
   CodeLine(MOVI, <<RegArg(-1), RegArg(A)>>), CodeLine(RET, <<RegArg(A)>>),
   CodeLine(RET, <<>>), CodeLine(-1, <<>>)}

Menu == ConstantLines \cup CodeLines \cup {LabelLine(X), LabelLine(Y)}

MCSources == {<<x, y, z>> : x, y, z \in Menu}

(* One line for each statement of the documentation about single lines.    *)
MCStatements ==
  {<<Constant(X, [form |-> "int", n |-> 1]), Constant(Y, [form |-> "string", chars |-> <<3, 1>>]),
     CodeLine(SUBI, <<RegArg(A), RegArg(B)>>),
     CodeLine(PRINTI, <<[ImmArg(<<1>>) EXCEPT !.neg = TRUE]>>),
     CodeLine(JMP, <<ImmArg(<<1, 2>>)>>),
     CodeLine(POPI, <<AddrArg(A)>>)>>}
=============================================================================
