----------------------------- MODULE MCVmCalls ------------------------------
(* VmCalls on subroutines that call each other.  f and g save $r around    *)
(* a body chosen from a menu; f may call itself while its counter $a lasts.*)
EXTENDS VmCalls, VmPrograms

A == 4
B == 5

Compare(x, y) == x > y
CompareEq(x, y) == x >= y
NoFloatAdd(x, y) == x

CallLine(n) == Line(CALL, <<LabelArg(n)>>)
Save        == Line(PUSHI, <<RegArg(R)>>)
Restore     == Line(POPI, <<RegArg(R)>>)

(* What a subroutine does between saving and restoring its return address: *)
(* f is at line 3, g at line 12.                                           *)
Bodies == {<<>>,
           <<CallLine(12)>>,
           <<CallLine(12), CallLine(12)>>,
           <<Line(ADDI, <<RegArg(A), ImmArg(<<1>>)>>),
             Line(IFI, <<RegArg(A), ImmArg(<<3>>)>>),
             CallLine(3)>>,
           <<Line(PUSHI + 2, <<RegArg(A)>>), CallLine(12), Line(POPI + 2, <<RegArg(B)>>)>>,
           <<CallLine(3)>>}

Padded(body) == body \o [k \in 1 .. 5 - Len(body) |-> Line(NOOP, <<>>)]

(* 0: call f; 1: call f or g; 2: jmp end; 3: f; 12: g; 15: end             *)
Main(second) == <<CallLine(3), CallLine(second), Line(JMP, <<LabelArg(15)>>)>>
F(body)      == <<Save>> \o Padded(body) \o <<Restore, Line(RET, <<>>), Line(NOOP, <<>>)>>
G(leaf)      == IF leaf THEN <<Line(RET, <<>>), Line(NOOP, <<>>), Line(NOOP, <<>>)>>
                ELSE <<Save, Restore, Line(RET, <<>>)>>

Compiled(lines) == [instrs |-> Assembled(lines, 0), constants |-> <<>>, pool |-> <<>>]

MCCallPrograms ==
  {Compiled(Main(second) \o F(body) \o G(leaf)) :
     second \in {3, 12}, body \in Bodies, leaf \in BOOLEAN}

(* The notes that show that these programs follow the convention.          *)
Note(p) ==
  [k \in 0 .. 14 |->
     CASE k \in 0 .. 2                                    -> InMain
       [] k \in {3, 10, 12}                                -> Entered(0)
       [] k \in {5, 6} /\ OPCODE(p.instrs[5]) = PUSHI + 2  -> Saved(5)
       [] k = 13 /\ OPCODE(p.instrs[13]) = PUSHI           -> Saved(4)
       [] k = 14 /\ OPCODE(p.instrs[13]) = PUSHI           -> Entered(0)
       [] k \in 4 .. 9                                     -> Saved(4)
       [] OTHER                                            -> Unreached]

ASSUME CallProgramsFollowConvention == \A p \in MCCallPrograms : Convention(p, Note(p))
=============================================================================
