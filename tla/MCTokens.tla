------------------------------ MODULE MCTokens ------------------------------
(* Tokens on every short text, and on every longer text of the characters  *)
(* that make strings, comments and arguments.                              *)
EXTENDS Tokens

TextsOf(characters, length) == UNION {[1 .. n -> characters] : n \in 0 .. length}

MCTexts ==
  TextsOf(Characters, 4)
    \cup TextsOf({"space", "semi", "quote", "x"}, 6)
    \cup TextsOf({"space", "nl", "semi", "dot", "x"}, 5)
=============================================================================
