----------------------------- MODULE ByteStack ------------------------------
(***************************************************************************)
(* What the stack of the machine promises a program: a bounded stack of    *)
(* bytes on which integers, floats (Wide bytes) and single bytes can be    *)
(* pushed and popped in any mixture.  An operation that does not fit the   *)
(* stack, or finds too little on it, ends the program.                     *)
(***************************************************************************)
EXTENDS Integers, Sequences

CONSTANTS Bytes,       \* the values of a byte
          Capacity     \* the bytes the stack has room for

VARIABLES stack,       \* the bytes on the stack, the top first
          failed       \* the program was ended by a stack operation

Width == {1, 4}

Init == stack = <<>> /\ failed = FALSE

Push(n) ==
  /\ ~ failed
  /\ Len(stack) + n <= Capacity
  /\ \E top \in [1 .. n -> Bytes] : stack' = top \o stack
  /\ UNCHANGED failed

Pop(n) ==
  /\ ~ failed
  /\ Len(stack) >= n
  /\ stack' = SubSeq(stack, n + 1, Len(stack))
  /\ UNCHANGED failed

Overflow(n)  == ~ failed /\ Len(stack) + n > Capacity /\ failed' = TRUE /\ UNCHANGED stack
Underflow(n) == ~ failed /\ Len(stack) < n /\ failed' = TRUE /\ UNCHANGED stack

Next == \E n \in Width : Push(n) \/ Pop(n) \/ Overflow(n) \/ Underflow(n)

Spec == Init /\ [][Next]_<<stack, failed>>
=============================================================================
