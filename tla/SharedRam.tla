----------------------------- MODULE SharedRam ------------------------------
(***************************************************************************)
(* The RAM of a VM (vm->ram): compile lays the constants out in it and     *)
(* vmExecute runs on what compile left there.                              *)
(***************************************************************************)
EXTENDS Ram

CONSTANT FreshBytes     \* what malloc may leave in a byte

ASSUME FreshBytesAssumption == FreshBytes \subseteq Byte

VARIABLE ram            \* ram->mem
=============================================================================
