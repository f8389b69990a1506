------------------------------- MODULE Tokens -------------------------------
(***************************************************************************)
(* parse and parseLine of src/assembler.c: the text of a program becomes   *)
(* the list of lines that the passes of Assembler walk.  A step is a turn  *)
(* of one of the three loops, over the text, over the spaces at the        *)
(* beginning of a line, and over the characters of a line.                 *)
(*                                                                         *)
(* A character is one of                                                   *)
(*   "space" "cr" "nl" "semi" "quote"      tested by the code              *)
(*   "dot" "colon"                         decide the kind of a line       *)
(*   "x"                                   all others, tabs among them     *)
(***************************************************************************)
EXTENDS Integers, Sequences, SequencesExt, FiniteSetsExt

CONSTANT Texts      \* the files a run may parse

Characters == {"space", "cr", "nl", "semi", "quote", "dot", "colon", "x"}

ASSUME TextsAssumption == \A t \in Texts : t \in Seq(Characters)

VARIABLES
  text,             \* the file, never changed
  loop,             \* the loop that runs: "text", "trim", "line", "break" or "parsed"
  assembly,         \* the cursor of parse
  line,             \* the cursor of parseLine
  inComment, inString,
  buf, args,        \* the argument and the arguments gathered so far
  lineNumber, address,
  instrs            \* program->instrs

lineVars == <<line, inComment, inString, buf, args>>
fileVars == <<lineNumber, address, instrs>>
tokVars  == <<text, loop, assembly, lineVars, fileVars>>

TokInit ==
  /\ text \in Texts
  /\ loop = "text" /\ assembly = 1 /\ line = 1
  /\ inComment = FALSE /\ inString = FALSE /\ buf = <<>> /\ args = <<>>
  /\ lineNumber = 1 /\ address = 0 /\ instrs = <<>>

(* The 0 behind the text ends the last line.                               *)
CharAt(i) == IF i <= Len(text) THEN text[i] ELSE "end"

-----------------------------------------------------------------------------
(* The loop of parse: line marks the start of the line until parseLine is  *)
(* called with it.                                                         *)
EndsLine(c) == c \in {"nl", "end"}

ScanCharacter ==
  /\ loop = "text" /\ ~ EndsLine(CharAt(assembly))
  /\ assembly' = assembly + 1
  /\ UNCHANGED <<text, loop, lineVars, fileVars>>

CallParseLine ==
  /\ loop = "text" /\ EndsLine(CharAt(assembly))
  /\ loop' = "trim"
  /\ inComment' = FALSE /\ inString' = FALSE /\ buf' = <<>> /\ args' = <<>>
  /\ UNCHANGED <<text, assembly, line, fileVars>>

(* parseLine has returned: the next line starts behind the newline, unless *)
(* this was the last one.                                                  *)
Return ==
  /\ lineNumber' = lineNumber + 1
  /\ line' = assembly + 1
  /\ loop' = "break"
  /\ UNCHANGED <<text, assembly, inComment, inString, buf, args>>

(* Mutant: the newline is not stepped over.                                *)
BreakBeforeNewline ==
  /\ loop = "break"
  /\ loop' = IF CharAt(assembly) = "end" THEN "parsed" ELSE "text"
  /\ UNCHANGED <<text, assembly, lineVars, fileVars>>

BreakOrContinue ==
  /\ loop = "break"
  /\ IF CharAt(assembly) = "end" THEN loop' = "parsed" /\ UNCHANGED assembly
     ELSE loop' = "text" /\ assembly' = assembly + 1
  /\ UNCHANGED <<text, lineVars, fileVars>>

-----------------------------------------------------------------------------
(* parseLine: the leading spaces, then the characters.                     *)
Trims == CharAt(line) \in {"space", "cr"} /\ line < assembly

Trim ==
  /\ loop = "trim" /\ Trims
  /\ line' = line + 1
  /\ UNCHANGED <<text, loop, assembly, inComment, inString, buf, args, fileVars>>

BlankLine ==
  /\ loop = "trim" /\ line >= assembly
  /\ Return
  /\ UNCHANGED <<address, instrs>>

BeginLine ==
  /\ loop = "trim" /\ ~ Trims /\ line < assembly
  /\ loop' = "line"
  /\ UNCHANGED <<text, assembly, lineVars, fileVars>>

AtCharacter(c) == loop = "line" /\ line < assembly /\ CharAt(line) = c

Advance == line' = line + 1 /\ UNCHANGED <<text, loop, assembly, fileVars>>

(* The end of the body: outside comments the character is kept.            *)
Keep(commented) == buf' = IF commented THEN buf ELSE Append(buf, CharAt(line))

(* Mutant: a ; in a string begins a comment.                               *)
SemicolonAnywhere ==
  /\ AtCharacter("semi") /\ Advance
  /\ inComment' = TRUE
  /\ Keep(inComment')
  /\ UNCHANGED <<inString, args>>

Semicolon ==
  /\ AtCharacter("semi") /\ Advance
  /\ inComment' = (inComment \/ ~ inString)
  /\ Keep(inComment')
  /\ UNCHANGED <<inString, args>>

(* Mutant: continue in a loop that does not advance by itself.             *)
CarriageReturnStays == AtCharacter("cr") /\ UNCHANGED tokVars

(* Mutant: kept, as it "causes problems if not skipped".                   *)
CarriageReturnKept ==
  /\ AtCharacter("cr") /\ Advance
  /\ Keep(inComment)
  /\ UNCHANGED <<inComment, inString, args>>

CarriageReturn ==
  /\ AtCharacter("cr") /\ Advance
  /\ UNCHANGED <<inComment, inString, buf, args>>

Quote ==
  /\ AtCharacter("quote") /\ Advance
  /\ inString' = (~ inString /\ ~ inComment)
  /\ Keep(inComment)
  /\ UNCHANGED <<inComment, args>>

Gathered == IF buf # <<>> THEN Append(args, buf) ELSE args

Space ==
  /\ AtCharacter("space") /\ Advance
  /\ IF inString \/ inComment THEN Keep(inComment) /\ UNCHANGED args
     ELSE args' = Gathered /\ buf' = <<>>
  /\ UNCHANGED <<inComment, inString>>

OtherCharacter ==
  /\ \E c \in {"dot", "colon", "x"} : AtCharacter(c)
  /\ Advance
  /\ Keep(inComment)
  /\ UNCHANGED <<inComment, inString, args>>

(* The end of the line: it joins the list if it has an argument.           *)
Kind(arguments) ==
  CASE Head(Head(arguments)) = "dot" -> "constant"
    [] Head(Head(arguments)) = "colon" -> "label"
    [] OTHER -> "code"

AssemblerInstruction(arguments, n) ==
  [kind |-> Kind(arguments), name |-> Head(arguments), args |-> Tail(arguments), lineNumber |-> n]

EndLine ==
  /\ loop = "line" /\ line >= assembly
  /\ Return
  /\ IF Gathered = <<>> THEN UNCHANGED <<address, instrs>>
     ELSE LET next == AssemblerInstruction(Gathered, lineNumber)
          IN  /\ instrs' = Append(instrs, [line |-> next, address |-> address])
              /\ address' = address + (IF next.kind = "code" THEN 1 ELSE 0)

Parsed == loop = "parsed" /\ UNCHANGED tokVars

TokStep ==
  \/ ScanCharacter \/ CallParseLine \/ BreakOrContinue \/ Trim \/ BlankLine \/ BeginLine
  \/ Semicolon \/ CarriageReturn \/ Quote \/ Space \/ OtherCharacter \/ EndLine

TokNext == TokStep \/ Parsed

TokSpec == TokInit /\ [][TokNext]_tokVars

(* The loops wait for nothing.                                             *)
FairTokSpec == TokSpec /\ WF_tokVars(TokStep)

-----------------------------------------------------------------------------
(* Type invariant: the cursors stay in the text and its final 0, and no    *)
(* argument is empty or contains a character that never belongs to one.    *)
TokTypeOK ==
  /\ loop \in {"text", "trim", "line", "break", "parsed"}
  /\ assembly \in 1 .. Len(text) + 1
  /\ line \in 1 .. Len(text) + 2 /\ (loop \in {"text", "trim", "line"} => line <= assembly)
  /\ ~ (inComment /\ inString)
  /\ \A k \in DOMAIN args : args[k] # <<>> /\ \A j \in DOMAIN args[k] : args[k][j] \notin {"nl", "cr"}
  /\ address <= Len(instrs) /\ Len(instrs) < lineNumber

-----------------------------------------------------------------------------
(* The lines of a text, said without a loop.                               *)
Positions(s, c) == {i \in DOMAIN s : s[i] = c}

(* A set of numbers in ascending order.                                    *)
Below(S, x) == {y \in S : y < x}
Nth(S, k)   == CHOOSE x \in S : Cardinality(Below(S, x)) = k - 1
InOrder(S)  == [k \in 1 .. Cardinality(S) |-> Nth(S, k)]

(* A position lies in a string if an odd number of quotes is before it.    *)
InString(s, i) == Cardinality(Below(Positions(s, "quote"), i)) % 2 = 1

Comments(s)    == {i \in Positions(s, "semi") : ~ InString(s, i)}
Uncommented(s) == IF Comments(s) = {} THEN s ELSE SubSeq(s, 1, Min(Comments(s)) - 1)

(* The arguments are the longest stretches without a separating space.     *)
Separates(s, i) == i \notin DOMAIN s \/ (s[i] = "space" /\ ~ InString(s, i))
Starts(s)       == {i \in DOMAIN s : Separates(s, i - 1) /\ ~ Separates(s, i)}
Stretch(s, i)   == SubSeq(s, i, Min({j \in i .. Len(s) : Separates(s, j + 1)}))
Arguments(s)    == [k \in DOMAIN InOrder(Starts(s)) |-> Stretch(s, InOrder(Starts(s))[k])]

(* The n-th line: what is between two ends of lines, carriage returns left *)
(* out.                                                                    *)
Ends(t)              == {0, Len(t) + 1} \cup Positions(t, "nl")
Visible(t, from, to) == {i \in from + 1 .. to - 1 : t[i] # "cr"}
Between(t, from, to) == LET shown == InOrder(Visible(t, from, to)) IN [k \in DOMAIN shown |-> t[shown[k]]]
LineOf(t, n)         == Between(t, Nth(Ends(t), n), Nth(Ends(t), n + 1))
ArgumentsOf(t, n)    == Arguments(Uncommented(LineOf(t, n)))

NonBlank(t) == {n \in 1 .. Cardinality(Ends(t)) - 1 : ArgumentsOf(t, n) # <<>>}
Lines(t) ==
  LET numbers == InOrder(NonBlank(t))
  IN  [k \in DOMAIN numbers |-> AssemblerInstruction(ArgumentsOf(t, numbers[k]), numbers[k])]

LinesOf  == [t \in Texts |-> Lines(t)]
AllLines == {LinesOf[t] : t \in Texts}

(* The character loops implement the first pass of Assembler on the lines  *)
(* so defined: comments, strings that contain ; or spaces, carriage        *)
(* returns, blank lines and a missing last newline make no difference to   *)
(* the arguments, the line numbers and the instruction addresses.          *)
Pass == INSTANCE Assembler WITH
  source    <- LinesOf[text],
  Sources   <- AllLines,
  stage     <- IF loop = "parsed" THEN "labels" ELSE "parse",
  at        <- IF loop = "parsed" THEN 1 ELSE Len(instrs) + 1,
  labels    <- <<>>, constants <- <<>>, addresses <- <<>>, words <- <<>>,
  ram       <- [c \in {0} |-> 0], h <- 0,
  ByteSize  <- 2, RamSize <- 1,
  FreshRam  <- {[c \in {0} |-> 0]}, FreshBytes <- {0}, FreshLinks <- {"null"}, PastBuffer <- {"padding"}

ImplementsParse == Pass!AsmSpec

(* A text of n characters is parsed in at most 5 n + 5 turns of the three  *)
(* loops: parse and parseLine walk over it once each, whatever is in it.   *)
AfterThis == [text |-> 4, trim |-> 3, line |-> 2, break |-> 1, parsed |-> 0]
TurnsLeft == 4 * (Len(text) + 1 - assembly) + (Len(text) + 2 - line) + AfterThis[loop]
EveryTurnAdvances == [][TurnsLeft' \in 0 .. TurnsLeft - 1]_tokVars

(* Every file is parsed to its end.                                        *)
ParseEnds == <>(loop = "parsed")
=============================================================================
