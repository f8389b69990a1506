------------------------------ MODULE MCLitaVM ------------------------------
(* LitaVM on the programs of examples, with smaller numbers and texts, and *)
(* on all files of two lines from a menu.  A file is named by its lines.   *)
EXTENDS LitaVM, AssemblerLines, VmPrograms

Compare(x, y) == x > y
CompareEq(x, y) == x >= y
NoFloatAdd(x, y) == x

Command(name)  == [kind |-> "option", name |-> name]
Number(n)      == [kind |-> "number", n |-> n]
File(lines)    == [kind |-> "file", path |-> lines]

(* Lines by the names of the opcode and the registers.                     *)
Op(name, args)   == [kind |-> "code"] @@ Line(opcodeFromString(name), args)
Label(n)         == [kind |-> "label", name |-> n]
Constant(n, v)   == [kind |-> "constant", name |-> n, value |-> v]
Reg1(name)       == RegArg(cpuGetRegisterIndex(name))
Addr1(name)      == AddrArg(cpuGetRegisterIndex(name))
Imm(n)           == ImmArg(<<n>>)

(* examples/hello.asm, without its comments.                           *)
Hello(chars) ==
  <<Constant("text", [form |-> "string", chars |-> chars]),
    Op("LDCA", <<Reg1("$A"), ConstArg("text")>>),
    Op("PUSHI", <<Reg1("$A")>>),
    Op("CALL", <<LabelArg("print_string")>>),
    Op("JMP", <<LabelArg("exit")>>),
    Op("PRINTI", <<Imm(11)>>),
    Label("print_string"),
    Op("POPI", <<Reg1("$A")>>),
    Label("print_loop"),
    Op("IFB", <<Addr1("$A"), Imm(0)>>),
    Op("JMP", <<LabelArg("print_end_loop")>>),
    Op("PRINTC", <<Addr1("$A")>>),
    Op("ADDI", <<Reg1("$A"), Imm(1)>>),
    Op("JMP", <<LabelArg("print_loop")>>),
    Label("print_end_loop"),
    Op("RET", <<>>),
    Label("exit")>>

(* examples/fib.asm for the input n.                                   *)
Fib(n) ==
  <<Op("PUSHI", <<Imm(n)>>), Op("CALL", <<LabelArg("fib")>>), Op("POPI", <<Reg1("$A")>>),
    Op("PRINTI", <<Reg1("$A")>>), Op("PRINTC", <<Imm(2)>>), Op("JMP", <<LabelArg("exit")>>),
    Label("fib"),
    Op("POPI", <<Reg1("$A")>>), Op("MOVI", <<Reg1("$J"), Imm(0)>>), Op("MOVI", <<Reg1("$K"), Imm(1)>>),
    Op("IFEI", <<Reg1("$A"), Imm(2)>>), Op("JMP", <<LabelArg("fib_end_loop")>>),
    Op("MOVI", <<Reg1("$I"), Imm(3)>>),
    Label("fib_loop"),
    Op("IFEI", <<Reg1("$A"), Reg1("$I")>>), Op("JMP", <<LabelArg("fib_end_loop")>>),
    Op("MOVI", <<Reg1("$B"), Imm(0)>>), Op("ADDI", <<Reg1("$B"), Reg1("$J")>>),
    Op("ADDI", <<Reg1("$B"), Reg1("$K")>>), Op("MOVI", <<Reg1("$J"), Reg1("$K")>>),
    Op("MOVI", <<Reg1("$K"), Reg1("$B")>>), Op("ADDI", <<Reg1("$I"), Imm(1)>>),
    Op("JMP", <<LabelArg("fib_loop")>>),
    Label("fib_end_loop"),
    Op("MOVI", <<Reg1("$C"), Imm(0)>>), Op("ADDI", <<Reg1("$C"), Reg1("$J")>>),
    Op("ADDI", <<Reg1("$C"), Reg1("$K")>>), Op("PUSHI", <<Reg1("$C")>>), Op("RET", <<>>),
    Label("exit")>>

(* Two Fibonacci numbers in a row, as far as a word holds them.             *)
FibonacciPair[n \in Nat] ==
  IF n = 0 THEN <<0, 1>>
  ELSE LET p == FibonacciPair[n - 1] IN <<p[2], (p[1] + p[2]) % WordSize>>

Fibonacci(n) == FibonacciPair[n][1]

(* examples/constants.asm without the newlines it prints.              *)
Constants ==
  <<Constant("hex", [form |-> "int", n |-> 2047]), Constant("bin", [form |-> "int", n |-> 3]),
    Constant("bin2", [form |-> "int", n |-> 15]),
    Op("LDCI", <<Reg1("$A"), ConstArg("hex")>>), Op("PRINTI", <<Reg1("$A")>>),
    Op("PRINTI", <<ConstArg("hex")>>), Op("PRINTB", <<ConstArg("hex")>>),
    Op("PRINTI", <<ConstArg("bin")>>), Op("PRINTB", <<ConstArg("bin")>>)>>

(* Characters are ASCII: hello.asm takes a negative byte for the end.      *)
Texts  == UNION {[1 .. n -> {1, 3}] : n \in 0 .. 3} \cup {<<3, 2, 1, 1, 2>>}
Inputs == 1 .. 30

IntOut(n)  == [as |-> "I", value |-> n]
ByteOut(n) == [as |-> "B", value |-> n]
CharOut(c) == [as |-> "C", value |-> c]

Examples ==
  {<<File(Hello(text)), [k \in DOMAIN text |-> CharOut(text[k])]>> : text \in Texts}
    \cup {<<File(Fib(n)), <<IntOut(SignedWord(Fibonacci(n))), CharOut(2)>>>> : n \in Inputs}
    \cup {<<File(Constants),
            <<IntOut(2047), IntOut(2047), ByteOut(-1), IntOut(3 + 8 * (7 + 8 * 1)), ByteOut(3)>>>>}

MCExpected == [f \in {e[1] : e \in Examples} |-> (CHOOSE e \in Examples : e[1] = f)[2]]

-----------------------------------------------------------------------------
(* Files of two lines, and of a constant, an instruction and a label.      *)
SomeValues ==
  {[form |-> "int", n |-> 1], [form |-> "int", n |-> 100], [form |-> "string", chars |-> <<1, 3>>],
   [form |-> "string", chars |-> [k \in 1 .. RamSize |-> 1]],
   [form |-> "float", word |-> 5], [form |-> "absent"], [form |-> "invalid"], [form |-> "quote"]}

Constant1(value) == Constant("x", value)

(* As the README's tables have them ...                                    *)
Documented ==
  {Op("MOVI", <<Reg1("$A"), Imm(1)>>), Op("MOVB", <<Addr1("$A"), Reg1("$B")>>),
   Op("MOVF", <<Reg1("$A"), ConstArg("x")>>), Op("LDCI", <<Reg1("$A"), ConstArg("x")>>),
   Op("LDCA", <<Reg1("$B"), ConstArg("x")>>), Op("PUSHI", <<Imm(1)>>), Op("POPB", <<Reg1("$SP")>>),
   Op("DUPI", <<Reg1("$A")>>), Op("IFB", <<Addr1("$A"), Imm(0)>>), Op("JMP", <<LabelArg("l")>>),
   Op("CALL", <<LabelArg("l")>>), Op("RET", <<>>), Op("PRINTI", <<ConstArg("x")>>),
   Op("PRINTC", <<Addr1("$B")>>), Op("ADDI", <<Reg1("$A"), Addr1("$B")>>), Op("NOOP", <<>>)}

(* ... and not.                                                            *)
Undocumented ==
  {Op("MOVI", <<Reg1("$A"), [Imm(1) EXCEPT !.neg = TRUE]>>), Op("MOVF", <<Reg1("$A"), Imm(1)>>),
   Op("PUSHI", <<Reg1("$X")>>), Op("PUSHI", <<Addr1("$X")>>), Op("PUSHI", <<Imm(MAX_IMMEDIATE_VALUE + 1)>>),
   Op("LDCI", <<Reg1("$A"), Reg1("$B")>>), Op("LDCA", <<Reg1("$A"), Imm(1)>>), Op("POPI", <<Imm(12)>>),
   Op("POPI", <<Addr1("$A")>>), Op("PUSHI", <<[kind |-> "other"]>>), Op("JMP", <<Reg1("$A")>>),
   Op("CALL", <<Imm(3)>>), Op("MULI", <<Reg1("$A"), Imm(2)>>), Op("MOV", <<Reg1("$A"), Imm(2)>>),
   Op("RET", <<Imm(1)>>), Op("ADDI", <<Imm(1), Reg1("$A")>>)}

Instructions == Documented \cup Undocumented
Menu         == Instructions \cup {Label("l")} \cup {Constant1(v) : v \in SomeValues}

MenuNames ==
  {File(<<>>)} \cup {File(<<x, y>>) : x, y \in Menu}
    \cup {File(<<Constant1(v), x, y>>) : v \in SomeValues, x \in Instructions,
                                        y \in {Label("l"), Constant("y", [form |-> "float", word |-> 6])}}
MCFreshRam == [Cell -> FreshBytes]
MCFiles == [name \in MenuNames \cup DOMAIN MCExpected |-> name.path]

MCSources == {name.path : name \in DOMAIN MCFiles}

(* A command line for each file, and many for one of them: with sizes of   *)
(* the RAM below and above the stack's, no long can hold, no block holds,  *)
(* or whose block's size wraps.                                            *)
SomeFile == File(<<Op("PUSHI", <<Imm(1)>>), Op("NOOP", <<>>)>>)
Missing  == File(<<Op("NOOP", <<>>)>>)      \* no name of MCFiles

Pieces ==
  {<<Command("-d")>>, <<SomeFile>>, <<Missing>>,
   <<Command("-r"), Command("-d")>>}
    \cup {<<Command("-r"), Number(n)>> : n \in {RamSize, RamSize + 4, 1, -1, 2 * LongMax}}
    \cup {<<Command("-s"), Number(n)>> : n \in {RamSize, 3, -1}}

ShortLines ==
  {<<>>, <<Command("-s"), SomeFile>>, <<Command("-r"), Command("-s"), SomeFile>>}
    \cup {x \o y \o z : x, y, z \in Pieces \cup {<<>>}}

MCCommandLines ==
  {<<f>> : f \in DOMAIN MCExpected} \cup {<<Command("-d"), f>> : f \in DOMAIN MCFiles} \cup ShortLines
    \cup {x \o <<Command(o)>> : x \in Pieces \cup {<<>>}, o \in {"-s", "-r"}}

(* The hello world program alone.                                          *)
MCHelloCommand == {<<File(Hello(<<1, 3>>))>>}

(* Sizes of the RAM.                                                       *)
MCRamCommands ==
  {<<Command("-r"), Number(n), SomeFile>> : n \in (-3 .. RamSize + 4) \cup {- LongMax}}
    \cup {<<Command("-s"), Number(s), Command("-r"), Number(n), SomeFile>> : s \in {0, 3, -1}, n \in -3 .. RamSize + 4}
=============================================================================
