----------------------------- MODULE VmPrograms -----------------------------
(* Shorthands for writing small assembly programs as sequences of lines.   *)
EXTENDS Encoding

RegArg(r)     == [kind |-> "reg", reg |-> r]
AddrArg(r)    == [kind |-> "addr", reg |-> r]
ConstArg(n)   == [kind |-> "const", name |-> n]
LabelArg(n)   == [kind |-> "label", name |-> n]
ImmArg(ds)    == [kind |-> "imm", base |-> 10, digits |-> ds, neg |-> FALSE]

Line(op, args) == [op |-> op, args |-> args]

(* The table of constants named 0, 1, ... and labels naming their address. *)
ConstTable(n)  == [k \in 1 .. n |-> [name |-> k - 1]]
LabelTable(n)  == [k \in 1 .. n |-> [name |-> k - 1, address |-> k - 1]]

(* parseInstructions: the words of the lines, for a program of n constants. *)
Assembled(lines, n) ==
  FoldLeft(LAMBDA words, line : Append(words, Encode(line, LabelTable(16), ConstTable(n))),
           <<>>, lines)
=============================================================================
