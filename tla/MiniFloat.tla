----------------------------- MODULE MiniFloat ------------------------------
(* A stand-in for the float a 32 bit word holds, for the runs: the words   *)
(* are sign-and-magnitude numbers, except the last one, which is NaN and   *)
(* compares with nothing.  Addition is exact where it can be, else NaN.    *)
EXTENDS Integers

CONSTANT WordSize

NaN == WordSize - 1
Half == WordSize \div 2

Value(w) == IF w < Half THEN w ELSE Half - w
Encoded(n) == IF n >= 0 THEN n ELSE Half - n

Gt(x, y) == x # NaN /\ y # NaN /\ Value(x) > Value(y)
Ge(x, y) == x # NaN /\ y # NaN /\ Value(x) >= Value(y)
Add(x, y) ==
  IF x = NaN \/ y = NaN \/ Value(x) + Value(y) \notin (2 - Half) .. Half - 1
  THEN NaN ELSE Encoded(Value(x) + Value(y))

-----------------------------------------------------------------------------
(* For the other operations a word counts halves, so that there are        *)
(* numbers between the integers.  Results are cut towards 0.               *)
Size(n) == IF n < 0 THEN - n ELSE n
Cut(a, b) == IF (a < 0) = (b < 0) THEN Size(a) \div Size(b) ELSE - (Size(a) \div Size(b))

Number(n) == IF n \in (2 - Half) .. Half - 2 THEN Encoded(n) ELSE NaN

Lift(x, y, n) == IF x = NaN \/ y = NaN THEN NaN ELSE Number(n)

Sub(x, y) == Lift(x, y, Value(x) - Value(y))
Mul(x, y) == Lift(x, y, Cut(Value(x) * Value(y), 2))
Div(x, y) == Lift(x, y, Cut(2 * Value(x), Value(y)))

IsZero(x) == x # NaN /\ Value(x) = 0

(* The conversion of a number no int holds gives the smallest int.         *)
ToInt(x) == IF x = NaN THEN - Half ELSE Cut(Value(x), 2)
OfInt(n) == Number(2 * n)
=============================================================================
