-------------------------------- MODULE Text --------------------------------
(***************************************************************************)
(* What a stretchy buffer promises its user: a sequence that grows without *)
(* losing what is in it.  The program may be stopped at any operation (an  *)
(* assertion, no memory left), but never continues with another content.   *)
(***************************************************************************)
EXTENDS Sequences

CONSTANTS Elements,   \* what can be pushed
          Strings     \* what can be printed, as sequences of elements

VARIABLES content,    \* the sequence
          stopped     \* the process has ended

Init == content = <<>> /\ stopped = FALSE

Append1(v) == content' = Append(content, v)
Extend(s)  == content' = content \o s
Empty      == content' = <<>>

Operation ==
  \/ \E v \in Elements : Append1(v)
  \/ \E s \in Strings : Extend(s)
  \/ Empty

Next == ~ stopped /\ \/ Operation /\ UNCHANGED stopped
                     \/ stopped' = TRUE /\ UNCHANGED content

Spec == Init /\ [][Next]_<<content, stopped>>
=============================================================================
