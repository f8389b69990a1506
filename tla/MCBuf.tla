-------------------------------- MODULE MCBuf --------------------------------
(* Buf with two elements and texts shorter and longer than the smallest    *)
(* capacity, in an address space in which three doublings are possible.    *)
EXTENDS Buf

MCStrings == {<<>>, <<"x">>, <<"x", "y", "x">>}
=============================================================================
